---- MODULE Spec2Model ----
(***************************************************************************)
(* State-machine model of the hermes topic pipeline:                       *)
(*   - TopicExtractorV2 (src/topic_extractor_v2.py): stop-phrase filter,   *)
(*     canonicalizer, per-video extraction, account V2 run;                *)
(*   - TopicExtractor / AccountTopicManager (src/topic_extractor.py) and   *)
(*     TopicMigrator (src/scripts/migrate_topics_v2.py): aggregation;      *)
(*   - UmbrellaBuilder (src/umbrella_builder.py): umbrella clustering.     *)
(*                                                                         *)
(* Strings are sequences of one-character strings, so that lower(),        *)
(* strip() and the dictionary look-ups are computed as the code computes   *)
(* them.  Scores are integers: cosine similarities in hundredths, MMR      *)
(* scores and confidences in thousandths.                                  *)
(***************************************************************************)
EXTENDS Integers, Sequences, FiniteSets, TLC

VARIABLES
    merge_rules,     \* TopicExtractorV2.canonical_map["merge_rules"]
    stop_lines,      \* the lines of config/stop_phrases.txt
    stop_phrases,    \* TopicExtractorV2.stop_phrases
    canon,           \* the last _canonicalize call: argument, result, result re-applied
    call,            \* the last per-video extraction call: arguments and returned list
    index,           \* accounts/<username>/index.json: processed_videos, in dict order
    v2_files,        \* topics/<video_id>_tags_v2.json of each video
    run,             \* the account-level call in progress: results, position
    v1_files,        \* topics/<video_id>_tags.json of each video
    account_tags,    \* topics/account_tags.json
    account_category, \* topics/account_category.json
    builder,         \* UmbrellaBuilder: similarity_threshold, min_cluster_size
    available,       \* the clustering backends whose import succeeded
    umbrella_file,   \* topics/topic_umbrellas.json
    build,           \* the last build_account_umbrellas call and how it ended
    batch,           \* a loop over accounts: the accounts, the position, the outcomes
    ingestion,       \* IdempotentIngestionManager: index.json and the run in progress
    worker,          \* worker.main: JOB_HANDLERS and the last process_job call
    job              \* IngestionQueueManager: the job, its run_ingestion task

vars == <<merge_rules, stop_lines, stop_phrases, canon, call, index, v2_files, run,
          v1_files, account_tags, account_category,
          builder, available, umbrella_file, build, batch, ingestion, worker, job>>

cfgVars == <<merge_rules, stop_lines, stop_phrases>>

acctVars == <<index, v2_files, run>>

aggVars == <<v1_files, account_tags, account_category>>

umbVars == <<builder, available, umbrella_file, build>>

jobVars == <<batch, ingestion, worker, job>>

-----------------------------------------------------------------------------
(* Bounds *)

\* longest phrase handed to _canonicalize, longest merge-rule value
MaxLen == 2

\* most distinct noun phrases _extract_noun_phrases returns for one video
MaxCands == 2

\* videos in an account's index.json
NumVideos == 2

\* tags in the account_tags.json handed to the umbrella builder
MaxTags == 3

\* most noun phrases (repetitions included) handed to the MMR selection
MaxPhrases == 3

\* most evidence sentences counted for one topic
MaxEvidence == 21

\* tags in the account_tags.json of an account whose umbrellas are built once
MaxWideTags == 5

\* videos of the account an ingestion fetches
NumFetched == 3

\* ingestion runs followed
MaxRuns == 3

\* accounts of one batch
NumAccounts == 2

-----------------------------------------------------------------------------
(* Strings *)

Alphabet == {"a", "A", " "}

StringsUpTo(n) == UNION {[1..k -> Alphabet] : k \in 0..n}

Phrases == StringsUpTo(MaxLen)

Letters ==
    <<"a", "b", "c", "d", "e", "f", "g", "h", "i", "j", "k", "l", "m", "n",
    "o", "p", "q", "r", "s", "t", "u", "v", "w", "x", "y", "z">>

Capitals ==
    <<"A", "B", "C", "D", "E", "F", "G", "H", "I", "J", "K", "L", "M", "N",
    "O", "P", "Q", "R", "S", "T", "U", "V", "W", "X", "Y", "Z">>

\* str.lower() on one character
LowerChar(c) ==
    IF \E i \in DOMAIN Capitals : Capitals[i] = c
    THEN Letters[CHOOSE i \in DOMAIN Capitals : Capitals[i] = c]
    ELSE c

\* str.upper() on one character
UpperChar(c) ==
    IF \E i \in DOMAIN Letters : Letters[i] = c
    THEN Capitals[CHOOSE i \in DOMAIN Letters : Letters[i] = c]
    ELSE c

\* str.lower()
Lower(s) == [i \in DOMAIN s |-> LowerChar(s[i])]

IsSpace(c) == c = " "

RECURSIVE LStrip(_)
LStrip(s) ==
    IF s = <<>> THEN s
    ELSE IF IsSpace(Head(s)) THEN LStrip(Tail(s)) ELSE s

RECURSIVE RStrip(_)
RStrip(s) ==
    IF s = <<>> THEN s
    ELSE IF IsSpace(s[Len(s)]) THEN RStrip(SubSeq(s, 1, Len(s) - 1)) ELSE s

\* str.strip()
Strip(s) == RStrip(LStrip(s))

-----------------------------------------------------------------------------
(* TopicExtractorV2: configuration *)

\* keys of the merge tables drawn at construction
RuleKeys == {<<"a">>, <<"a", "a">>}

\* json.load of config/canonical_topics.json: any table of phrase -> phrase
MergeTables == UNION {[K -> Phrases] : K \in SUBSET RuleKeys}

\* _load_stop_phrases: strip each line, skip blank and '#' lines, lower-case
LoadStopPhrases(lines) ==
    {Lower(Strip(l)) : l \in {x \in lines : Strip(x) # <<>> /\ Head(Strip(x)) # "#"}}

\* _is_stop_phrase without the strip()
IsStopPhraseNoStrip(phrase) == Lower(phrase) \in stop_phrases

\* _is_stop_phrase
IsStopPhrase(phrase) == Strip(Lower(phrase)) \in stop_phrases

\* _canonicalize
Canonicalize(phrase) ==
    LET phrase_lower == Strip(Lower(phrase))
    IN  IF phrase_lower \in DOMAIN merge_rules
        THEN merge_rules[phrase_lower]
        ELSE phrase_lower

-----------------------------------------------------------------------------
(* Specification SpecCanon: _canonicalize applied to any phrase under any  *)
(* merge table                                                             *)

NoCall == [called |-> FALSE]

\* no account on disk, no account run started
\* a file that does not exist
NoFile == [exists |-> FALSE]

\* no UmbrellaBuilder constructed
NoBuilder ==
    /\ builder = [constructed |-> FALSE]
    /\ available = {}
    /\ umbrella_file = NoFile
    /\ build = [pc |-> "idle"]

\* no batch over accounts, no ingestion manager, no worker, no queue manager
NoJobs ==
    /\ batch = [pc |-> "idle"]
    /\ ingestion = [pc |-> "idle"]
    /\ worker = [pc |-> "idle"]
    /\ job = [pc |-> "idle"]

NoAccount ==
    /\ index = <<>>
    /\ v2_files = <<>>
    /\ run = [pc |-> "idle"]
    /\ v1_files = <<>>
    /\ account_tags = NoFile
    /\ account_category = NoFile
    /\ NoBuilder

InitCanon ==
    /\ NoJobs
    /\ merge_rules \in MergeTables
    /\ stop_lines = {}
    /\ stop_phrases = LoadStopPhrases(stop_lines)
    /\ canon = NoCall
    /\ call = NoCall
    /\ NoAccount

\* canonical = self._canonicalize(phrase)
CanonicalizeCall(x) ==
    /\ canon' = [again |-> FALSE, arg |-> x, called |-> TRUE, out |-> Canonicalize(x)]
    /\ UNCHANGED <<jobVars, cfgVars, call, acctVars, aggVars, umbVars>>

\* the result fed back to _canonicalize
CanonicalizeAgain ==
    /\ canon.called
    /\ ~canon.again
    /\ canon' = [again |-> TRUE, arg |-> canon.out, called |-> TRUE,
                 first |-> canon.out, out |-> Canonicalize(canon.out)]
    /\ UNCHANGED <<jobVars, cfgVars, call, acctVars, aggVars, umbVars>>

NextCanon ==
    \/ \E x \in Phrases : CanonicalizeCall(x)
    \/ CanonicalizeAgain

SpecCanon == InitCanon /\ [][NextCanon]_vars

\* C1: canonicalization is idempotent for every phrase and every merge
\* table: _canonicalize applied to a result of _canonicalize returns that
\* same string.
C1_CanonicalizeIdempotent ==
    (canon.called /\ canon.again) => canon.out = canon.first

-----------------------------------------------------------------------------
(* Sequences *)

\* seq[:n]
Take(seq, n) == SubSeq(seq, 1, IF n < Len(seq) THEN n ELSE Len(seq))

Range(seq) == {seq[i] : i \in DOMAIN seq}

\* the duplicate-free sequences over S of length at most n
OrderedSubsets(S, n) ==
    {q \in UNION {[1..k -> S] : k \in 0..n} :
        \A i, j \in DOMAIN q : i # j => q[i] # q[j]}

\* needle in hay (substring)
Contains(hay, needle) ==
    \E i \in 0..(Len(hay) - Len(needle)) :
        \A k \in 1..Len(needle) : hay[i + k] = needle[k]

\* the indices of keys in the order list.sort(reverse=True) gives them:
\* descending key, equal keys in their original order (the sort is stable)
RECURSIVE InsertDesc(_, _, _)
InsertDesc(sorted, i, keys) ==
    IF sorted = <<>> THEN <<i>>
    ELSE IF keys[Head(sorted)] >= keys[i]
         THEN <<Head(sorted)>> \o InsertDesc(Tail(sorted), i, keys)
         ELSE <<i>> \o sorted

RECURSIVE OrderDescFrom(_, _, _)
OrderDescFrom(sorted, i, keys) ==
    IF i > Len(keys) THEN sorted
    ELSE OrderDescFrom(InsertDesc(sorted, i, keys), i + 1, keys)

\* the list left in the order it has
KeepOrder(seq, keys) == seq

\* list.sort(key=..., reverse=True), keys[i] the key of seq[i]
SortDesc(seq, keys) ==
    LET order == OrderDescFrom(<<>>, 1, keys)
    IN  [i \in DOMAIN seq |-> seq[order[i]]]

Min(a, b) == IF a < b THEN a ELSE b

Max(a, b) == IF a > b THEN a ELSE b

-----------------------------------------------------------------------------
(* TopicExtractorV2: per-video extraction.                                 *)
(* A video is the record of what the call receives and of what the models  *)
(* it calls return for it:                                                 *)
(*   len           len(transcript) (0: empty or None)                      *)
(*   pieces        the non-blank stripped pieces of transcript.split('.')  *)
(*   timestamps    sentence_timestamps: records [text, start_time, end_time]*)
(*   noun_phrases  the phrases of _extract_noun_phrases, each with         *)
(*                 the angle of its embedding, in the order list(set(...)) *)
(*                 iterates them                                           *)
(*   title, hashtags, lambda_param, max_topics, min_confidence             *)
(*   fault         the step that raises: "none", "nlp" (spaCy), "encode"   *)
(*                 (the sentence transformer)                              *)
(* Embeddings are unit vectors in the plane, the document's at angle 0.    *)

MinTranscriptLen == 50

\* mmr_score < -0.1, in units of 1e-4
NoiseFloorE4 == -1000

EvidenceKept == 3

FallbackEvidenceLimit == 5

ExcerptLen == 150

DocAngle == 0

\* sklearn cosine_similarity of two unit vectors at angles a and b, in hundredths
Cos100(a, b) ==
    LET d == IF a >= b THEN a - b ELSE b - a
    IN  CASE d = 0 -> 100
          [] d = 60 -> 50
          [] d = 120 -> -50
          [] OTHER -> -100

\* one round of the while loop of _compute_mmr: the (idx, mmr) of every remaining
\* candidate, mmr in units of 1e-4 with lambda_param in hundredths
MmrScore(emb, lambda_param, idx, selected) ==
    LET relevance == Cos100(emb[idx], DocAngle)
        sims == {Cos100(emb[idx], emb[selected[k].idx]) : k \in DOMAIN selected}
        redundancy == IF selected # <<>>
                      THEN CHOOSE m \in sims : \A x \in sims : m >= x
                      ELSE 0
    IN  lambda_param * relevance - (100 - lambda_param) * redundancy

\* max(mmr_scores, key=lambda x: x[1]): the position in remaining of the first
\* candidate with the greatest score
BestPosition(emb, lambda_param, selected, remaining) ==
    LET sc(k) == MmrScore(emb, lambda_param, remaining[k], selected)
    IN  CHOOSE k \in DOMAIN remaining :
            /\ \A j \in DOMAIN remaining : sc(k) >= sc(j)
            /\ \A j \in 1..(k - 1) : sc(j) < sc(k)

RECURSIVE MmrLoop(_, _, _, _, _, _)
MmrLoop(candidates, emb, lambda_param, top_n, selected, remaining) ==
    IF ~(Len(selected) < Min(top_n, Len(candidates))) \/ remaining = <<>>
    THEN selected
    ELSE LET k == BestPosition(emb, lambda_param, selected, remaining)
             best_idx == remaining[k]
             best_score == MmrScore(emb, lambda_param, best_idx, selected)
         IN  MmrLoop(candidates, emb, lambda_param, top_n,
                     Append(selected, [idx |-> best_idx,
                                       phrase |-> candidates[best_idx],
                                       score |-> best_score]),
                     SubSeq(remaining, 1, k - 1)
                         \o SubSeq(remaining, k + 1, Len(remaining)))

\* _compute_mmr: the selected (phrase, score) pairs, in selection order
ComputeMmr(candidates, emb, lambda_param, top_n) ==
    IF candidates = <<>> THEN <<>>
    ELSE LET picked == MmrLoop(candidates, emb, lambda_param, top_n, <<>>,
                               [i \in 1..Len(candidates) |-> i])
         IN  [i \in DOMAIN picked |->
                 [phrase |-> picked[i].phrase, score |-> picked[i].score]]

\* the sentences of sents (records with a text) that contain the phrase,
\* as TopicEvidence records
EvidenceIn(sents, phrase_lower) ==
    LET idxs == SelectSeq([i \in 1..Len(sents) |-> i],
                          LAMBDA i : Contains(Lower(sents[i].text), phrase_lower))
    IN  [j \in DOMAIN idxs |->
            [end_time |-> sents[idxs[j]].end_time,
             sentence_index |-> idxs[j] - 1,
             start_time |-> sents[idxs[j]].start_time,
             text |-> Take(sents[idxs[j]].text, ExcerptLen)]]

\* _find_evidence
FindEvidence(phrase, sentence_timestamps, len, pieces) ==
    LET phrase_lower == Lower(phrase)
    IN  IF sentence_timestamps # <<>>
        THEN EvidenceIn(sentence_timestamps, phrase_lower)
        ELSE IF len > 0
        THEN Take(EvidenceIn([i \in DOMAIN pieces |->
                                 [end_time |-> 0, start_time |-> 0, text |-> pieces[i]]],
                             phrase_lower),
                  FallbackEvidenceLimit)
        ELSE <<>>

\* numpy.log1p(n), in units of 1e-6
Log1pTable ==
    <<693147, 1098612, 1386294, 1609438, 1791759, 1945910, 2079442, 2197225,
      2302585, 2397895, 2484907, 2564949, 2639057, 2708050, 2772589, 2833213,
      2890372, 2944439, 2995732, 3044522>>

Log1pE6(n) ==
    IF n = 0 THEN 0
    ELSE IF n <= Len(Log1pTable) THEN Log1pTable[n]
    ELSE Log1pTable[Len(Log1pTable)]

\* evidence_boost of _compute_confidence, in units of 1e-6
EvidenceBoost(evidence_count) == Min(300000, Log1pE6(evidence_count) \div 10)

\* _compute_confidence with the three clamps left out
ConfidenceUnclamped(mmr_score, evidence_count) ==
    ((((mmr_score + 5000) * 1000) \div 12) + (Log1pE6(evidence_count) \div 10) + 500)
        \div 1000

\* _compute_confidence: mmr in units of 1e-4, the result in thousandths
ComputeConfidence(mmr_score, evidence_count) ==
    LET normalized_mmr == Max(0, Min(1000000, ((mmr_score + 5000) * 1000) \div 12))
        evidence_boost == EvidenceBoost(evidence_count)
        confidence == Min(1000000, normalized_mmr + evidence_boost)
    IN  (confidence + 500) \div 1000

\* the sources list of one topic
TopicSources(phrase, title, hashtags) ==
    <<"transcript">>
    \o (IF title # <<>> /\ Contains(Lower(title), Lower(phrase))
        THEN <<"title">> ELSE <<>>)
    \o (IF \E i \in DOMAIN hashtags : Contains(Lower(hashtags[i]), Lower(phrase))
        THEN <<"hashtag">> ELSE <<>>)

\* the EnhancedTopic built for one selected phrase
BuildTopic(video, sel) ==
    LET evidence == FindEvidence(sel.phrase, video.timestamps, video.len, video.pieces)
    IN  [canonical |-> Canonicalize(sel.phrase),
         confidence |-> ComputeConfidence(sel.score, Len(evidence)),
         distinct_sentences |-> Len(evidence),
         evidence |-> Take(evidence, EvidenceKept),
         score |-> sel.score,
         sources |-> TopicSources(sel.phrase, video.title, video.hashtags),
         tag |-> sel.phrase]

\* what a call returns: the topic list, whether an exception left the call,
\* whether one was caught inside it, the pairs MMR selected and the topics
\* built from them (enhanced_topics before the sort and the cutoff)
Returned(topics, caught, selected, enhanced_topics) ==
    [caught |-> caught, enhanced_topics |-> enhanced_topics, raised |-> FALSE,
     selected |-> selected, topics |-> topics]

\* the guard testing only for the empty transcript
TooShortEmptyOnly(len) == len = 0

\* if not transcript or len(transcript) < 50
TooShort(len) == len = 0 \/ len < MinTranscriptLen

\* the candidate list without the deduplication
KeepAll(noun_phrases) == noun_phrases

RECURSIVE FirstByPhrase(_, _)
FirstByPhrase(noun_phrases, seen) ==
    IF noun_phrases = <<>> THEN <<>>
    ELSE IF Head(noun_phrases).phrase \in seen
         THEN FirstByPhrase(Tail(noun_phrases), seen)
    ELSE <<Head(noun_phrases)>>
         \o FirstByPhrase(Tail(noun_phrases), seen \cup {Head(noun_phrases).phrase})

\* list(set(candidates)): one entry per distinct phrase (in the order of the
\* first occurrences; the phrases are handed over in every order)
DedupByPhrase(noun_phrases) == FirstByPhrase(noun_phrases, {})

\* steps 2 of extract_video_topics_enhanced: the candidates, each with the
\* angle of its embedding
Candidates(noun_phrases) ==
    DedupByPhrase(SelectSeq(noun_phrases, LAMBDA np : ~IsStopPhrase(np.phrase)))

\* extract_video_topics_enhanced
ExtractVideoTopicsEnhanced(video) ==
    IF TooShort(video.len) THEN Returned(<<>>, FALSE, <<>>, <<>>)
    ELSE IF video.fault = "nlp" THEN Returned(<<>>, TRUE, <<>>, <<>>)
    ELSE
    LET kept == Candidates(video.noun_phrases)
        candidates == [i \in DOMAIN kept |-> kept[i].phrase]
        emb == [i \in DOMAIN kept |-> kept[i].angle]
    IN  IF candidates = <<>> THEN Returned(<<>>, FALSE, <<>>, <<>>)
        ELSE IF video.fault = "encode" THEN Returned(<<>>, TRUE, <<>>, <<>>)
        ELSE
        LET selected == ComputeMmr(candidates, emb, video.lambda_param,
                                   video.max_topics * 2)
            built == [i \in DOMAIN selected |-> BuildTopic(video, selected[i])]
            enhanced_topics ==
                SelectSeq(built, LAMBDA t : /\ ~(t.score < NoiseFloorE4)
                                            /\ ~(t.confidence < video.min_confidence))
            sorted == SortDesc(enhanced_topics,
                               [i \in DOMAIN enhanced_topics |->
                                   enhanced_topics[i].confidence])
        IN  Returned(Take(sorted, video.max_topics), FALSE, selected, enhanced_topics)

-----------------------------------------------------------------------------
(* TopicExtractor (V1): per-video tags *)

RECURSIVE SplitWords(_, _)
SplitWords(s, cur) ==
    IF s = <<>> THEN (IF cur = <<>> THEN <<>> ELSE <<cur>>)
    ELSE IF IsSpace(Head(s))
         THEN (IF cur = <<>> THEN <<>> ELSE <<cur>>) \o SplitWords(Tail(s), <<>>)
         ELSE SplitWords(Tail(s), Append(cur, Head(s)))

\* str.split()
Split(s) == SplitWords(s, <<>>)

\* TopicExtractor.stop_words (the NLTK list and the fallback list both hold 'a')
StopWords == {<<"a">>}

\* extract_video_tags: video.keywords is what KeyBERT's extract_keywords returns
ExtractVideoTags(video) ==
    IF TooShort(video.len) THEN Returned(<<>>, FALSE, <<>>, <<>>)
    ELSE IF video.fault = "keybert" THEN Returned(<<>>, TRUE, <<>>, <<>>)
    ELSE
    LET kept == SelectSeq(video.keywords,
                          LAMBDA kw : ~(/\ Len(Split(kw.keyword)) = 1
                                        /\ Lower(kw.keyword) \in StopWords))
        tags == [i \in DOMAIN kept |->
                    [score |-> kept[i].score, tag |-> kept[i].keyword,
                     type |-> "keyphrase"]]
    IN  Returned(Take(tags, video.max_tags), FALSE, <<>>, <<>>)

-----------------------------------------------------------------------------
(* Specification SpecExtract: the per-video extractors called with any     *)
(* video of the pools below                                                *)

TranscriptLens == {0, MinTranscriptLen - 1, MinTranscriptLen}

PiecePool ==
    { << <<"a", " ", "b">> >>,
      << <<"A">>, <<"b", " ", "a">> >> }

TimestampPool ==
    { <<>>,
      << [end_time |-> 3, start_time |-> 0, text |-> <<"A", " ", "b">>],
         [end_time |-> 6, start_time |-> 3, text |-> <<"b">>] >> }

NounPhrasePool == {<<"a">>, <<" ", "a">>, <<"b">>}

Angles == {0, 60, 120}

\* the outputs of _extract_noun_phrases with the embeddings of the phrases
NounPhraseLists ==
    {q \in UNION {[1..k -> [angle : Angles, phrase : NounPhrasePool]] : k \in 0..MaxCands} :
        \A i, j \in DOMAIN q : i # j => q[i].phrase # q[j].phrase}

MetaPool ==
    { [hashtags |-> <<>>, title |-> <<>>],
      [hashtags |-> << <<"#", "B">> >>, title |-> <<"A", " ", "b">>] }

\* (lambda_param in hundredths, max_topics, min_confidence in thousandths)
OptionPool ==
    { [lambda_param |-> 70, max_topics |-> 10, min_confidence |-> 0],
      [lambda_param |-> 70, max_topics |-> 1, min_confidence |-> 0],
      [lambda_param |-> 70, max_topics |-> 10, min_confidence |-> 500],
      [lambda_param |-> 100, max_topics |-> 1, min_confidence |-> 500] }

Video(len, pieces, timestamps, noun_phrases, meta, opt, fault) ==
    [fault |-> fault, hashtags |-> meta.hashtags, lambda_param |-> opt.lambda_param,
     len |-> len, max_topics |-> opt.max_topics, min_confidence |-> opt.min_confidence,
     noun_phrases |-> noun_phrases, pieces |-> pieces, timestamps |-> timestamps,
     title |-> meta.title]

KeywordPool == {<<"a">>, <<"b">>, <<"a", " ", "b">>}

KeywordLists ==
    {q \in UNION {[1..k -> [keyword : KeywordPool, score : {30, 60}]] : k \in 0..MaxCands} :
        \A i, j \in DOMAIN q : i # j => q[i].keyword # q[j].keyword}

\* the stop_phrases.txt files and canonical_topics.json tables of SpecExtract
StopFilePool == { {}, {<<"A", " ">>, <<"#", "b">>} }

ExtractMergeTable == (<<"b">> :> <<"a", " ", "b">>)

InitExtract ==
    /\ NoJobs
    /\ merge_rules = ExtractMergeTable
    /\ stop_lines \in StopFilePool
    /\ stop_phrases = LoadStopPhrases(stop_lines)
    /\ canon = NoCall
    /\ call = NoCall
    /\ NoAccount

\* extractor.extract_video_topics_enhanced(...)
ExtractV2Call(video) ==
    /\ ~call.called
    /\ call' = [called |-> TRUE, fn |-> "v2",
                ret |-> ExtractVideoTopicsEnhanced(video), video |-> video]
    /\ UNCHANGED <<jobVars, cfgVars, canon, acctVars, aggVars, umbVars>>

\* extractor.extract_video_tags(...)
ExtractV1Call(video) ==
    /\ ~call.called
    /\ call' = [called |-> TRUE, fn |-> "v1",
                ret |-> ExtractVideoTags(video), video |-> video]
    /\ UNCHANGED <<jobVars, cfgVars, canon, acctVars, aggVars, umbVars>>

\* the caller takes the returned list; the extractor is ready for the next call
ExtractReturn ==
    /\ call.called
    /\ call' = NoCall
    /\ UNCHANGED <<jobVars, cfgVars, canon, acctVars, aggVars, umbVars>>

NextExtract ==
    \/ /\ ~call.called
       /\ \E len \in TranscriptLens, pieces \in PiecePool, ts \in TimestampPool,
             nps \in NounPhraseLists, meta \in MetaPool, opt \in OptionPool,
             fault \in {"none", "nlp", "encode"} :
               ExtractV2Call(Video(len, pieces, ts, nps, meta, opt, fault))
    \/ /\ ~call.called
       /\ \E len \in TranscriptLens, kws \in KeywordLists, max_tags \in {1, 10},
             fault \in {"none", "keybert"} :
               ExtractV1Call([fault |-> fault, keywords |-> kws, len |-> len,
                              max_tags |-> max_tags])
    \/ ExtractReturn

SpecExtract == InitExtract /\ [][NextExtract]_vars

\* C9: for every transcript that is empty or shorter than 50 characters, V2
\* extract_video_topics_enhanced and V1 extract_video_tags return an empty
\* list and do not raise, whatever the other arguments are.
C9_ShortTranscriptEmpty ==
    (call.called /\ call.video.len < MinTranscriptLen)
        => (call.ret.topics = <<>> /\ ~call.ret.raised)

\* a 49-character transcript for which the NLP model would have produced
\* candidates (V2) or keywords (V1) was answered with the empty list
C9_Witness ==
    /\ call.called
    /\ call.video.len = MinTranscriptLen - 1
    /\ call.video.fault = "none"
    /\ IF call.fn = "v2" THEN call.video.noun_phrases # <<>>
                         ELSE call.video.keywords # <<>>
    /\ call.ret.topics = <<>>

\* phrase is on the configured stop-phrase list: it equals, case-insensitively
\* and after trimming, a line of stop_phrases.txt that is no comment
OnStopList(phrase) ==
    \E l \in stop_lines :
        /\ Strip(l) # <<>>
        /\ Head(Strip(l)) # "#"
        /\ Lower(Strip(l)) = Lower(Strip(phrase))

\* C10: no phrase on the configured stop-phrase list is the tag of a topic
\* returned by extract_video_topics_enhanced, and none is among the pairs
\* MMR selected (it never takes a selection slot).
C10_NoStopPhraseTag ==
    (call.called /\ call.fn = "v2")
        => /\ \A i \in DOMAIN call.ret.topics : ~OnStopList(call.ret.topics[i].tag)
           /\ \A i \in DOMAIN call.ret.selected : ~OnStopList(call.ret.selected[i].phrase)

\* a video whose noun phrases include stop-listed ones (one of them with the
\* best relevance) and another phrase, answered with topics
C10_Witness ==
    /\ call.called
    /\ call.fn = "v2"
    /\ \E i \in DOMAIN call.video.noun_phrases :
          /\ OnStopList(call.video.noun_phrases[i].phrase)
          /\ call.video.noun_phrases[i].angle = DocAngle
    /\ call.ret.topics # <<>>

\* C16: the list extract_video_topics_enhanced returns has at most
\* max_topics topics, is sorted by confidence in non-increasing order, holds
\* only topics with confidence >= min_confidence, and every topic dropped by
\* the cutoff has a confidence no higher than every topic kept.
C16_TopConfidenceKept ==
    (call.called /\ call.fn = "v2")
        => /\ Len(call.ret.topics) <= call.video.max_topics
           /\ \A i, j \in DOMAIN call.ret.topics :
                 i < j => call.ret.topics[i].confidence >= call.ret.topics[j].confidence
           /\ \A i \in DOMAIN call.ret.topics :
                 call.ret.topics[i].confidence >= call.video.min_confidence
           /\ \A d \in DOMAIN call.ret.enhanced_topics :
                 (\A k \in DOMAIN call.ret.topics :
                     call.ret.topics[k].tag # call.ret.enhanced_topics[d].tag)
                    => \A k \in DOMAIN call.ret.topics :
                          call.ret.enhanced_topics[d].confidence
                             <= call.ret.topics[k].confidence

\* two topics passed the filters, max_topics is 1, and the topic returned is
\* the one built second, whose confidence is the higher
C16_Witness ==
    /\ call.called
    /\ call.fn = "v2"
    /\ call.video.max_topics = 1
    /\ call.video.min_confidence > 0
    /\ Len(call.ret.enhanced_topics) = 2
    /\ Len(call.ret.topics) = 1
    /\ call.ret.topics[1].tag = call.ret.enhanced_topics[2].tag
    /\ call.ret.topics[1].confidence > call.ret.enhanced_topics[1].confidence

-----------------------------------------------------------------------------
(* Specification SpecAccountV2: extract_account_topics_v2 over an account  *)
(* of NumVideos videos, run any number of times, with or without force.    *)
(* One action is one iteration of the loop over processed_videos.          *)

\* a processed_videos entry with what the account directory holds for it:
\* whether the transcript file exists, and the length of its stripped text
\* (a failed download, a missing transcript, an empty one, a usable one)
VideoData ==
    {d \in [hashtags : {<<>>}, len : {0, MinTranscriptLen}, success : BOOLEAN,
            title : {<<"A", " ", "b">>}, transcript_exists : BOOLEAN] :
        /\ ~d.transcript_exists => d.len = 0
        /\ ~d.success => ~d.transcript_exists}

\* the <video_id>_timestamps.json read for a video during an account run
AccountTimestamps ==
    << [end_time |-> 3, start_time |-> 0, text |-> <<"A", " ", "b">>] >>

\* what the NLP models return for a video during an account run
AccountNounPhraseLists ==
    { <<>>,
      << [angle |-> 0, phrase |-> <<"a">>] >>,
      << [angle |-> 0, phrase |-> <<"b">>], [angle |-> 60, phrase |-> <<" ", "a">>] >> }

\* the step of one iteration that raises: in the models called by
\* extract_video_topics_enhanced ("nlp", "encode"), in json.load of the
\* timestamps file ("timestamps"), in writing the tag file ("write")
AccountFaults == {"none", "nlp", "encode", "timestamps", "write"}

InitAccountV2 ==
    /\ NoJobs
    /\ merge_rules = ExtractMergeTable
    /\ stop_lines = {<<"A", " ">>, <<"#", "b">>}
    /\ stop_phrases = LoadStopPhrases(stop_lines)
    /\ canon = NoCall
    /\ call = NoCall
    /\ index \in [1..NumVideos -> VideoData]
    /\ v2_files \in {[v \in 1..NumVideos |-> NoFile]}
    /\ run = [pc |-> "idle"]
    /\ v1_files = <<>>
    /\ account_tags = NoFile
    /\ account_category = NoFile
    /\ NoBuilder

\* the counters with a skipped video left uncounted
BumpUnlessSkipped(results, counter) ==
    IF counter = "skipped" THEN results ELSE [results EXCEPT ![counter] = @ + 1]

\* results[counter] += 1
Bump(results, counter) == [results EXCEPT ![counter] = @ + 1]

\* extract_account_topics_v2, up to the loop
StartAccountRunV2(force) ==
    /\ run.pc \in {"idle", "done"}
    /\ run' = [caught |-> {}, force |-> force,
               outcome |-> [v \in 1..Len(index) |-> "pending"],
               pc |-> IF Len(index) = 0 THEN "done" ELSE "running",
               pos |-> 1,
               results |-> [extracted |-> 0, failed |-> 0, skipped |-> 0,
                            total_videos |-> Len(index)]]
    /\ UNCHANGED <<jobVars, cfgVars, canon, call, index, v2_files, aggVars, umbVars>>

\* the videos arguments of the call made for index entry video_data
AccountVideo(video_data, timestamps, noun_phrases, fault) ==
    [fault |-> fault, hashtags |-> video_data.hashtags, lambda_param |-> 70,
     len |-> video_data.len, max_topics |-> 10, min_confidence |-> 0,
     noun_phrases |-> noun_phrases, pieces |-> << <<"a", " ", "b">> >>,
     timestamps |-> timestamps, title |-> video_data.title]

\* the iteration left by counter, with the tag file written or not
AccountStep(counter, file, caught) ==
    /\ run' = [run EXCEPT
                  !.results = Bump(@, counter),
                  !.outcome[run.pos] = counter,
                  !.caught = IF caught THEN @ \cup {run.pos} ELSE @,
                  !.pos = @ + 1,
                  !.pc = IF run.pos = Len(index) THEN "done" ELSE "running"]
    /\ v2_files' = IF ~file.exists THEN v2_files
                   ELSE [v2_files EXCEPT ![run.pos] = file]

\* one iteration of `for video_id, video_data in processed_videos.items()`
AccountVideoV2(timestamps, noun_phrases, fault) ==
    /\ run.pc = "running"
    /\ \E video_data \in {index[run.pos]} :
       \E ret \in {ExtractVideoTopicsEnhanced(
                      AccountVideo(video_data, timestamps, noun_phrases, fault))} :
           IF ~video_data.success THEN AccountStep("skipped", NoFile, FALSE)
           ELSE IF v2_files[run.pos].exists /\ ~run.force
           THEN AccountStep("skipped", NoFile, FALSE)
           ELSE IF ~video_data.transcript_exists
           THEN AccountStep("failed", NoFile, FALSE)
           ELSE IF video_data.len = 0
           THEN AccountStep("failed", NoFile, FALSE)
           ELSE IF fault = "timestamps"
           THEN AccountStep("failed", NoFile, FALSE)
           ELSE IF fault = "write"
           THEN AccountStep("failed", NoFile, ret.caught)
           ELSE AccountStep("extracted",
                            [exists |-> TRUE, topics |-> ret.topics,
                             total_topics |-> Len(ret.topics)],
                            ret.caught)
    /\ UNCHANGED <<jobVars, cfgVars, canon, call, index, aggVars, umbVars>>

NextAccountV2 ==
    \/ \E force \in BOOLEAN : StartAccountRunV2(force)
    \/ \E nps \in AccountNounPhraseLists, fault \in AccountFaults :
          AccountVideoV2(AccountTimestamps, nps, fault)

SpecAccountV2 == InitAccountV2 /\ [][NextAccountV2]_vars

\* C2: an exception raised while computing one video's candidates,
\* selection, evidence or confidence yields an empty topic list for that
\* video and increments the run's 'failed' counter: every video of the run
\* whose computation raised is counted as failed and has no topics on file.
C2_VideoExceptionCountsFailed ==
    (run.pc # "idle")
        => \A v \in run.caught :
              /\ run.outcome[v] = "failed"
              /\ (v2_files[v].exists => v2_files[v].topics = <<>>)

\* C26: at the end of extract_account_topics_v2, extracted + skipped + failed
\* equals total_videos, every video of the index being counted in exactly one
\* of the three counters; and a video whose V2 tag file exists is skipped,
\* its file left as it is, unless force is set.
C26_EveryVideoCountedOnce ==
    /\ [](run.pc = "done"
             => /\ run.results.total_videos = Len(index)
                /\ run.results.extracted + run.results.skipped + run.results.failed
                      = run.results.total_videos
                /\ \A v \in DOMAIN index :
                      run.outcome[v] \in {"extracted", "skipped", "failed"}
                /\ \A c \in {"extracted", "skipped", "failed"} :
                      run.results[c]
                        = Cardinality({v \in DOMAIN index : run.outcome[v] = c}))
    /\ [][(run.pc = "running" /\ ~run.force /\ v2_files[run.pos].exists)
             => /\ run'.outcome[run.pos] = "skipped"
                /\ run'.results.skipped = run.results.skipped + 1
                /\ v2_files' = v2_files]_vars

\* a run without force has ended: the first video, transcribed and with the
\* tag file of an earlier run, was skipped, the second was not skipped
C26_Witness ==
    /\ run.pc = "done"
    /\ ~run.force
    /\ index[1].success
    /\ v2_files[1].exists
    /\ run.outcome[1] = "skipped"
    /\ run.outcome[2] # "skipped"
    /\ run.results.skipped = 1

-----------------------------------------------------------------------------
(* TopicExtractor.aggregate_account_tags. Scores are in hundredths;         *)
(* avg_score, engagement_weight and combined_score in units of 1e-4.        *)

RECURSIVE Sum(_)
Sum(seq) == IF seq = <<>> THEN 0 ELSE Head(seq) + Sum(Tail(seq))

\* the (tag, score, video_id) triples in the order the two nested loops meet them
RECURSIVE TagOccurrences(_)
TagOccurrences(video_tags) ==
    IF video_tags = <<>> THEN <<>>
    ELSE LET video_tag_data == Head(video_tags)
         IN  [i \in DOMAIN video_tag_data.tags |->
                 [score |-> video_tag_data.tags[i].score,
                  tag |-> video_tag_data.tags[i].tag,
                  video_id |-> video_tag_data.video_id]]
             \o TagOccurrences(Tail(video_tags))

\* the keys of a dict (Counter, defaultdict) filled in the order of seq
RECURSIVE FirstSeen(_, _)
FirstSeen(seq, seen) ==
    IF seq = <<>> THEN <<>>
    ELSE IF Head(seq) \in seen THEN FirstSeen(Tail(seq), seen)
    ELSE <<Head(seq)>> \o FirstSeen(Tail(seq), seen \cup {Head(seq)})

\* one entry of ranked_tags with the engagement weight left out of
\* combined_score
RankedTagUnweighted(tag, occurrences, view_counts) ==
    LET mine == SelectSeq(occurrences, LAMBDA o : o.tag = tag)
        count == Len(mine)
        avg_score == (Sum([i \in DOMAIN mine |-> mine[i].score]) * 100) \div count
        total_views ==
            Sum([i \in DOMAIN mine |->
                    IF mine[i].video_id \in DOMAIN view_counts
                    THEN view_counts[mine[i].video_id] ELSE 0])
        engagement_weight ==
            IF total_views > 0 THEN 10000 + Log1pE6(total_views) \div 2000
            ELSE 10000
    IN  [avg_score |-> avg_score,
         combined_score |-> count * avg_score,
         engagement_weight |-> engagement_weight,
         frequency |-> count,
         tag |-> tag,
         video_ids |-> [i \in DOMAIN mine |-> mine[i].video_id]]

\* one entry of ranked_tags; view_counts[video_id] is the view_count of
\* video_meta_map[video_id]
RankedTag(tag, occurrences, view_counts) ==
    LET mine == SelectSeq(occurrences, LAMBDA o : o.tag = tag)
        count == Len(mine)
        avg_score == (Sum([i \in DOMAIN mine |-> mine[i].score]) * 100) \div count
        total_views ==
            Sum([i \in DOMAIN mine |->
                    IF mine[i].video_id \in DOMAIN view_counts
                    THEN view_counts[mine[i].video_id] ELSE 0])
        engagement_weight ==
            IF total_views > 0 THEN 10000 + Log1pE6(total_views) \div 2000
            ELSE 10000
    IN  [avg_score |-> avg_score,
         combined_score |-> (count * avg_score * engagement_weight) \div 10000,
         engagement_weight |-> engagement_weight,
         frequency |-> count,
         tag |-> tag,
         video_ids |-> [i \in DOMAIN mine |-> mine[i].video_id]]

\* aggregate_account_tags(video_tags, video_metadata)
AggregateAccountTags(video_tags, view_counts) ==
    LET occurrences == TagOccurrences(video_tags)
        tags == FirstSeen([i \in DOMAIN occurrences |-> occurrences[i].tag], {})
        ranked_tags == [i \in DOMAIN tags |-> RankedTag(tags[i], occurrences, view_counts)]
    IN  [tags |-> SortDesc(ranked_tags,
                           [i \in DOMAIN ranked_tags |-> ranked_tags[i].combined_score]),
         total_tags |-> Len(ranked_tags),
         total_videos |-> Len(video_tags)]

-----------------------------------------------------------------------------
(* Specification SpecAggV1: AccountTopicManager.extract_all_topics over an  *)
(* account of NumVideos videos, run any number of times, with or without    *)
(* force. One action is one iteration of the loop over processed_videos;    *)
(* the aggregation that ends the call is a step of its own.                 *)

\* a processed_videos entry with what the account directory holds for it
\* (a failed download, a missing transcript, a usable one)
AggVideoData ==
    {d \in [len : {MinTranscriptLen}, success : BOOLEAN,
            transcript_exists : BOOLEAN, view_count : {0, 3}] :
        /\ ~d.success => ~d.transcript_exists
        /\ ~d.transcript_exists => d.view_count = 0}

\* what KeyBERT returns for a video during an account run
AggKeywordLists ==
    { <<>>,
      << [keyword |-> <<"a", " ", "b">>, score |-> 60] >>,
      << [keyword |-> <<"b">>, score |-> 60] >>,
      << [keyword |-> <<"b">>, score |-> 80],
         [keyword |-> <<"a", " ", "b">>, score |-> 30] >> }

\* the step of one iteration that raises: KeyBERT's extract_keywords
\* ("keybert"), writing the tag file ("write")
AggFaults == {"none", "keybert", "write"}

\* what classify_account_category can answer for a non-empty tag list
\* ("Unknown": the embedding model raised)
CategoryPool == {"Unknown", "Philosophy", "Tech"}

InitAggV1 ==
    /\ NoJobs
    /\ merge_rules = ExtractMergeTable
    /\ stop_lines = {}
    /\ stop_phrases = {}
    /\ canon = NoCall
    /\ call = NoCall
    /\ index \in [1..NumVideos -> AggVideoData]
    /\ v2_files = <<>>
    /\ run = [pc |-> "idle"]
    /\ v1_files = [v \in 1..NumVideos |-> NoFile]
    /\ account_tags = NoFile
    /\ account_category = NoFile
    /\ NoBuilder

\* extract_all_topics, up to the loop
StartExtractAll(force) ==
    /\ run.pc \in {"idle", "done"}
    /\ run' = [force |-> force,
               pc |-> IF Len(index) = 0 THEN "aggregate" ELSE "running",
               pos |-> 1,
               results |-> [extracted |-> 0, failed |-> 0, skipped |-> 0,
                            total_videos |-> Len(index)],
               video_tags |-> <<>>]
    /\ UNCHANGED <<jobVars, cfgVars, canon, call, index, v2_files, aggVars, umbVars>>

\* the iteration left by counter; appended is what it appends to
\* results['video_tags'], written whether it wrote the tag file
ExtractAllStep(counter, appended, written) ==
    /\ run' = [run EXCEPT
                  !.results = Bump(@, counter),
                  !.video_tags = @ \o appended,
                  !.pos = @ + 1,
                  !.pc = IF run.pos = Len(index) THEN "aggregate" ELSE "running"]
    /\ v1_files' = IF written
                   THEN [v1_files EXCEPT ![run.pos] =
                            [exists |-> TRUE, tags |-> appended[1].tags,
                             video_id |-> run.pos]]
                   ELSE v1_files

\* one iteration of `for video_id, video_data in processed_videos.items()`
ExtractAllVideo(keywords, fault) ==
    /\ run.pc = "running"
    /\ \E video_data \in {index[run.pos]} :
       \E ret \in {ExtractVideoTags([fault |-> fault, keywords |-> keywords,
                                    len |-> video_data.len, max_tags |-> 10])} :
           IF ~video_data.success THEN ExtractAllStep("skipped", <<>>, FALSE)
           ELSE IF v1_files[run.pos].exists /\ ~run.force
           THEN ExtractAllStep("skipped",
                               << [tags |-> v1_files[run.pos].tags,
                                   video_id |-> v1_files[run.pos].video_id] >>,
                               FALSE)
           ELSE IF ~video_data.transcript_exists
           THEN ExtractAllStep("failed", <<>>, FALSE)
           ELSE IF fault = "write"
           THEN ExtractAllStep("failed", <<>>, FALSE)
           ELSE ExtractAllStep("extracted",
                               << [tags |-> ret.topics, video_id |-> run.pos] >>,
                               TRUE)
    /\ UNCHANGED <<jobVars, cfgVars, canon, call, index, v2_files, account_tags, account_category, umbVars>>

\* the end of extract_all_topics: _generate_account_aggregations when
\* results['video_tags'] is truthy
GenerateAccountAggregations(category) ==
    /\ run.pc = "aggregate"
    /\ run' = [run EXCEPT !.pc = "done"]
    /\ IF run.video_tags # <<>>
       THEN \E table \in {AggregateAccountTags(
                              run.video_tags,
                              [v \in DOMAIN index |-> index[v].view_count])} :
               /\ account_tags' = [exists |-> TRUE, tags |-> table.tags,
                                   total_tags |-> table.total_tags,
                                   total_videos |-> table.total_videos]
               /\ account_category' =
                     [category |-> IF table.tags = <<>> THEN "Unknown" ELSE category,
                      exists |-> TRUE]
       ELSE UNCHANGED <<account_tags, account_category>>
    /\ UNCHANGED <<jobVars, cfgVars, canon, call, index, v2_files, v1_files, umbVars>>

NextAggV1 ==
    \/ \E force \in BOOLEAN : StartExtractAll(force)
    \/ \E keywords \in AggKeywordLists, fault \in AggFaults :
          ExtractAllVideo(keywords, fault)
    \/ \E category \in CategoryPool : GenerateAccountAggregations(category)

SpecAggV1 == InitAggV1 /\ [][NextAggV1]_vars

\* C3: account aggregation runs only when at least one per-video topic list
\* is non-empty: the step that ends a run in which every per-video list is
\* empty writes no account-level tag table, so account_tags.json keeps the
\* content (or the absence) it had.
C3_EmptyListsSkipAggregation ==
    [][(/\ run.pc = "aggregate"
        /\ \A i \in DOMAIN run.video_tags : run.video_tags[i].tags = <<>>)
           => account_tags' = account_tags]_vars

\* C4: aggregation is independent of video order: the table a run wrote is
\* the table aggregate_account_tags gives for every reordering of the run's
\* per-video lists: the same groups with the same frequency, averages and
\* videos (compared as sets), presented in the same order.
C4_AggregationOrderIndependent ==
    (run.pc = "done" /\ run.video_tags # <<>>)
        => \A p \in Permutations(DOMAIN run.video_tags) :
              LET reordered == AggregateAccountTags(
                                   [i \in DOMAIN run.video_tags |-> run.video_tags[p[i]]],
                                   [v \in DOMAIN index |-> index[v].view_count])
              IN  /\ Len(reordered.tags) = Len(account_tags.tags)
                  /\ \A i \in DOMAIN reordered.tags :
                        /\ reordered.tags[i].tag = account_tags.tags[i].tag
                        /\ reordered.tags[i].frequency = account_tags.tags[i].frequency
                        /\ reordered.tags[i].avg_score = account_tags.tags[i].avg_score
                        /\ reordered.tags[i].combined_score
                              = account_tags.tags[i].combined_score
                        /\ Range(reordered.tags[i].video_ids)
                              = Range(account_tags.tags[i].video_ids)

\* C17: every tag of the table a run wrote has combined_score = frequency x
\* avg_score x engagement_weight, with engagement_weight exactly 1.0 when the
\* videos of the tag have no views in total and above 1.0 otherwise.
C17_CombinedScoreWeighted ==
    (run.pc = "done" /\ run.video_tags # <<>>)
        => \A i \in DOMAIN account_tags.tags :
              LET t == account_tags.tags[i]
                  total_views == Sum([k \in DOMAIN t.video_ids |->
                                         index[t.video_ids[k]].view_count])
              IN  /\ t.combined_score
                        = (t.frequency * t.avg_score * t.engagement_weight) \div 10000
                  /\ total_views = 0 => t.engagement_weight = 10000
                  /\ total_views > 0 => t.engagement_weight > 10000

\* a table with a tag of one video without views, score 0.8, weight 1.0 and
\* combined score 0.8, and a tag of a viewed video weighted above 1.0
C17_Witness ==
    /\ run.pc = "done"
    /\ run.video_tags # <<>>
    /\ \E i \in DOMAIN account_tags.tags :
          /\ account_tags.tags[i].frequency = 1
          /\ account_tags.tags[i].avg_score = 8000
          /\ index[account_tags.tags[i].video_ids[1]].view_count = 0
          /\ account_tags.tags[i].engagement_weight = 10000
          /\ account_tags.tags[i].combined_score = 8000
    /\ \E i \in DOMAIN account_tags.tags :
          account_tags.tags[i].engagement_weight > 10000

-----------------------------------------------------------------------------
(* UmbrellaBuilder: labels.                                                *)

\* the stopwords set of _generate_umbrella_label
LabelStopwords ==
    { <<"t", "h", "e">>, <<"a">>, <<"a", "n">>, <<"a", "n", "d">>, <<"o", "r">>,
      <<"b", "u", "t">>, <<"i", "n">>, <<"o", "n">>, <<"a", "t">>, <<"t", "o">>,
      <<"f", "o", "r">>, <<"o", "f">>, <<"w", "i", "t", "h">>,
      <<"f", "r", "o", "m">>, <<"b", "y">>, <<"i", "s">>, <<"a", "r", "e">>,
      <<"w", "a", "s">>, <<"w", "e", "r", "e">>, <<"b", "e">>,
      <<"b", "e", "e", "n">>, <<"b", "e", "i", "n", "g">>,
      <<"h", "a", "v", "e">>, <<"h", "a", "s">>, <<"h", "a", "d">>, <<"d", "o">>,
      <<"d", "o", "e", "s">>, <<"d", "i", "d">>, <<"w", "i", "l", "l">>,
      <<"w", "o", "u", "l", "d">>, <<"c", "o", "u", "l", "d">>,
      <<"s", "h", "o", "u", "l", "d">>, <<"m", "a", "y">>,
      <<"m", "i", "g", "h", "t">>, <<"m", "u", "s", "t">>, <<"c", "a", "n">>,
      <<"t", "h", "i", "s">>, <<"t", "h", "a", "t">>,
      <<"t", "h", "e", "s", "e">>, <<"t", "h", "o", "s", "e">>, <<"i">>,
      <<"y", "o", "u">>, <<"h", "e">>, <<"s", "h", "e">>, <<"i", "t">>,
      <<"w", "e">>, <<"t", "h", "e", "y">>, <<"m", "y">>, <<"y", "o", "u", "r">>,
      <<"h", "i", "s">>, <<"h", "e", "r">>, <<"i", "t", "s">>, <<"o", "u", "r">>,
      <<"t", "h", "e", "i", "r">>, <<"m", "e">>, <<"h", "i", "m">>,
      <<"j", "u", "s", "t">>, <<"l", "i", "k", "e">>,
      <<"r", "e", "a", "l", "l", "y">>, <<"v", "e", "r", "y">>,
      <<"t", "o", "o">>, <<"s", "o">>, <<"s", "u", "c", "h">>,
      <<"m", "a", "k", "e">>, <<"g", "e", "t">>, <<"g", "o", "t">>,
      <<"g", "o", "i", "n", "g">>, <<"g", "o">>, <<"t", "h", "i", "n", "g">>,
      <<"t", "h", "i", "n", "g", "s">>, <<"p", "e", "o", "p", "l", "e">>,
      <<"p", "e", "r", "s", "o", "n">>, <<"v", "i", "d", "e", "o">>,
      <<"v", "i", "d", "e", "o", "s">>,
      <<"w", "a", "t", "c", "h", "i", "n", "g">>, <<"w", "a", "t", "c", "h">>,
      <<"t", "h", "a", "n", "k">>, <<"t", "h", "a", "n", "k", "s">> }

\* the characters of word.strip('.,!?;:()[]{}"\'-#')
LabelPunctuation ==
    {".", ",", "!", "?", ";", ":", "(", ")", "[", "]", "{", "}", "\"", "'", "-", "#"}

RECURSIVE StripPunctuation(_)
StripPunctuation(word) ==
    IF word = <<>> THEN word
    ELSE IF Head(word) \in LabelPunctuation THEN StripPunctuation(Tail(word))
    ELSE IF word[Len(word)] \in LabelPunctuation
         THEN StripPunctuation(SubSeq(word, 1, Len(word) - 1))
    ELSE word

\* str.isalpha()
IsAlpha(word) ==
    /\ word # <<>>
    /\ \A i \in DOMAIN word : LowerChar(word[i]) \in Range(Letters)

\* str.capitalize()
Capitalize(word) ==
    [i \in DOMAIN word |-> IF i = 1 THEN UpperChar(word[i]) ELSE LowerChar(word[i])]

\* the cleaned words of one topic, in order
LabelWords(topic) ==
    LET words == Split(Lower(topic))
    IN  [i \in DOMAIN words |-> StripPunctuation(words[i])]

\* the words of one topic that the first loop counts
CountedWords(topic) ==
    SelectSeq(LabelWords(topic),
              LAMBDA word : Len(word) > 3 /\ word \notin LabelStopwords /\ IsAlpha(word))

RECURSIVE Flatten(_)
Flatten(seqs) == IF seqs = <<>> THEN <<>> ELSE Head(seqs) \o Flatten(Tail(seqs))

\* the fallback of _generate_umbrella_label when no word was counted
FallbackLabel(cluster_topics) ==
    LET first_topic == Lower(cluster_topics[1])
        words == LabelWords(first_topic)
        good == SelectSeq(words, LAMBDA w : Len(w) > 3 /\ w \notin LabelStopwords)
    IN  IF good # <<>> THEN [label |-> Capitalize(good[1]), raised |-> FALSE]
        ELSE IF Split(first_topic) = <<>> THEN [label |-> <<>>, raised |-> TRUE]
        ELSE [label |-> Capitalize(Split(first_topic)[1]), raised |-> FALSE]

\* every word after the top word
AllFollowing(sorted_words) == Tail(sorted_words)

\* sorted_words[1:4]: the next 3 words after the top word
NextWords(sorted_words) == SubSeq(sorted_words, 2, Min(4, Len(sorted_words)))

\* _generate_umbrella_label; raised: the IndexError of first_topic.split()[0]
GenerateUmbrellaLabel(cluster_topics) ==
    LET n == Len(cluster_topics)
        counted == [t \in DOMAIN cluster_topics |-> CountedWords(cluster_topics[t])]
        all_words == Flatten(counted)
        words == FirstSeen(all_words, {})
        word_counts == [w \in Range(words) |->
                           Len(SelectSeq(all_words, LAMBDA x : x = w))]
        word_topics == [w \in Range(words) |->
                           {cluster_topics[t] : t \in {u \in DOMAIN counted :
                                                         w \in Range(counted[u])}}]
        \* word_scores, times 2 * len(cluster_topics)
        word_scores == [i \in DOMAIN words |->
                           6 * Cardinality(word_topics[words[i]])
                           + n * word_counts[words[i]]]
        sorted_words == SortDesc(words, word_scores)
        top_word == sorted_words[1]
        complementary ==
            SelectSeq(NextWords(sorted_words),
                      LAMBDA second_word :
                          2 * Cardinality(word_topics[top_word] \cap word_topics[second_word])
                            < Min(Cardinality(word_topics[top_word]),
                                  Cardinality(word_topics[second_word])))
    IN  IF words = <<>> THEN FallbackLabel(cluster_topics)
        ELSE IF 10 * Cardinality(word_topics[top_word]) >= 3 * n \/ Len(sorted_words) = 1
        THEN [label |-> Capitalize(top_word), raised |-> FALSE]
        ELSE IF complementary # <<>>
        THEN [label |-> Capitalize(top_word) \o <<" ">> \o Capitalize(complementary[1]),
              raised |-> FALSE]
        ELSE [label |-> Capitalize(top_word), raised |-> FALSE]

-----------------------------------------------------------------------------
(* UmbrellaBuilder: similarity graph and clustering backends.               *)
(* Nodes are the positions 1..n of canonical_topics; a graph is the        *)
(* function giving each node its set of neighbours (the rows of adj_matrix).*)

\* the angle of the embedding SentenceTransformer.encode gives a topic
Encode(topic) ==
    CASE topic = <<"m", "i", "n", "d">> -> 0
      [] topic = <<"m", "i", "n", "d", "s", "e", "t">> -> 0
      [] topic = <<"d", "e", "e", "p", " ", "w", "o", "r", "k">> -> 60
      [] topic = <<"f", "o", "c", "u", "s">> -> 60
      [] OTHER -> 120

\* _build_similarity_graph with > in place of >=
BuildSimilarityGraphStrict(topics, similarity_threshold) ==
    [i \in DOMAIN topics |->
        {j \in DOMAIN topics :
            /\ j # i
            /\ Cos100(Encode(topics[i]), Encode(topics[j])) > similarity_threshold}]

\* _build_similarity_graph: threshold at similarity_threshold (hundredths),
\* no self-loops
BuildSimilarityGraph(topics, similarity_threshold) ==
    [i \in DOMAIN topics |->
        {j \in DOMAIN topics :
            /\ j # i
            /\ Cos100(Encode(topics[i]), Encode(topics[j])) >= similarity_threshold}]

\* edge_count
EdgeCount(adj) == Sum([i \in DOMAIN adj |-> Cardinality(adj[i])]) \div 2

\* the nodes reachable from the nodes of seen
RECURSIVE Reach(_, _)
Reach(adj, seen) ==
    LET more == seen \cup UNION {adj[i] : i \in seen}
    IN  IF more = seen THEN seen ELSE Reach(adj, more)

\* scipy connected_components(directed=False)
Components(adj) == {Reach(adj, {i}) : i \in DOMAIN adj}

\* whether block induces a connected subgraph
ConnectedBlock(adj, block) ==
    \A i \in block :
        Reach([k \in DOMAIN adj |-> adj[k] \cap block], {i}) = block

\* the partitions of a set of nodes into non-empty blocks
RECURSIVE Partitions(_)
Partitions(S) ==
    IF S = {} THEN {{}}
    ELSE LET x == CHOOSE y \in S : TRUE
         IN  UNION {{P \cup {B \cup {x}} : P \in Partitions((S \ {x}) \ B)} :
                      B \in SUBSET (S \ {x})}

\* the smallest element of a non-empty set of nodes
MinOf(S) == CHOOSE x \in S : \A y \in S : x <= y

\* a set of nodes as the ascending list enumerate() builds
RECURSIVE Ascending(_)
Ascending(S) == IF S = {} THEN <<>> ELSE <<MinOf(S)>> \o Ascending(S \ {MinOf(S)})

\* `clusters = defaultdict(list)` filled by enumerating the nodes: the blocks
\* in the order of their first node, each block ascending
RECURSIVE GroupByLabel(_)
GroupByLabel(blocks) ==
    IF blocks = {} THEN <<>>
    ELSE LET first == CHOOSE b \in blocks : \A c \in blocks : MinOf(b) <= MinOf(c)
         IN  <<Ascending(first)>> \o GroupByLabel(blocks \ {first})

\* the comprehension below with the size test left out
FilterNothing(clusters, min_cluster_size) == clusters

\* `[c for c in clusters.values() if len(c) >= self.min_cluster_size]`
FilterByMinSize(clusters, min_cluster_size) ==
    SelectSeq(clusters, LAMBDA c : Len(c) >= min_cluster_size)

\* what leidenalg.find_partition can answer, over the resolutions and seeds:
\* a partition into connected communities
LeidenPartitions(adj) ==
    {P \in Partitions(DOMAIN adj) : \A B \in P : ConnectedBlock(adj, B)}

\* what community_louvain.best_partition can answer, over the resolutions:
\* a partition into communities that stay inside one connected component
LouvainPartitions(adj) ==
    {P \in Partitions(DOMAIN adj) : \A B \in P : \E C \in Components(adj) : B \subseteq C}

\* what hdbscan's fit_predict can label (label >= 0) on a finite distance
\* matrix: disjoint clusters of at least min_cluster_size points, the other
\* points being noise
HdbscanLabelings(adj, min_cluster_size) ==
    UNION {SUBSET {B \in P : Cardinality(B) >= min_cluster_size} :
             P \in Partitions(DOMAIN adj)}

\* the outcomes of _cluster_topics: the backend called and, unless it
\* raised, the clusters it returns
ClusterOutcome(backend, raised, clusters) ==
    [backend |-> backend, clusters |-> clusters, raised |-> raised]

\* _cluster_leiden
ClusterLeiden(adj, min_cluster_size) ==
    {ClusterOutcome("leiden", FALSE, FilterByMinSize(GroupByLabel(P), min_cluster_size)) :
        P \in LeidenPartitions(adj)}

\* _cluster_louvain
ClusterLouvain(adj, min_cluster_size) ==
    {ClusterOutcome("louvain", FALSE, FilterByMinSize(GroupByLabel(P), min_cluster_size)) :
        P \in LouvainPartitions(adj)}

\* _cluster_hdbscan: adj_matrix.max() is 0 on a graph without edges, the
\* distance matrix is then 0/0 = NaN throughout and fit_predict raises
\* ValueError
ClusterHdbscan(adj, min_cluster_size) ==
    IF \A i \in DOMAIN adj : adj[i] = {}
    THEN {ClusterOutcome("hdbscan", TRUE, <<>>)}
    ELSE {ClusterOutcome("hdbscan", FALSE, GroupByLabel(L)) :
             L \in HdbscanLabelings(adj, min_cluster_size)}

\* _cluster_connected_components
ClusterConnectedComponents(adj, min_cluster_size) ==
    {ClusterOutcome("connected_components", FALSE,
                    FilterByMinSize(GroupByLabel(Components(adj)), min_cluster_size))}

\* _get_clustering_method asking for Louvain before Leiden
GetClusteringMethodLouvainFirst(backends) ==
    IF "louvain" \in backends THEN "louvain"
    ELSE IF "leiden" \in backends THEN "leiden"
    ELSE IF "hdbscan" \in backends THEN "hdbscan"
    ELSE "connected_components"

\* _get_clustering_method; backends is the set of backends whose import succeeded
GetClusteringMethod(backends) ==
    IF "leiden" \in backends THEN "leiden"
    ELSE IF "louvain" \in backends THEN "louvain"
    ELSE IF "hdbscan" \in backends THEN "hdbscan"
    ELSE "connected_components"

\* _cluster_topics
ClusterTopics(adj, min_cluster_size, backends) ==
    IF "leiden" \in backends THEN ClusterLeiden(adj, min_cluster_size)
    ELSE IF "louvain" \in backends THEN ClusterLouvain(adj, min_cluster_size)
    ELSE IF "hdbscan" \in backends THEN ClusterHdbscan(adj, min_cluster_size)
    ELSE ClusterConnectedComponents(adj, min_cluster_size)

-----------------------------------------------------------------------------
(* UmbrellaBuilder: umbrellas.                                              *)

\* the canonical form build_account_umbrellas gives an account tag
TagCanonical(tag_data, canonical_rules) ==
    IF "canonical" \in DOMAIN tag_data THEN tag_data.canonical
    ELSE IF Lower(tag_data.tag) \in DOMAIN canonical_rules
         THEN canonical_rules[Lower(tag_data.tag)]
         ELSE tag_data.tag

\* topic_nodes
TopicNodes(tags, canonical_rules) ==
    [i \in DOMAIN tags |->
        [avg_score |-> tags[i].avg_score,
         canonical |-> TagCanonical(tags[i], canonical_rules),
         frequency |-> tags[i].frequency,
         topic |-> tags[i].tag,
         video_ids |-> tags[i].video_ids]]

\* the canonical form of every tag, repeated when tags share one
EveryCanonical(topic_nodes) ==
    [i \in DOMAIN topic_nodes |-> topic_nodes[i].canonical]

\* list(canonical_map.keys())
CanonicalTopics(topic_nodes) ==
    FirstSeen([i \in DOMAIN topic_nodes |-> topic_nodes[i].canonical], {})

\* the mean of the upper triangle of the cluster's similarity matrix, in
\* hundredths; 100 for a single member
AvgCoherence(cluster_topics) ==
    LET pairs == {p \in (DOMAIN cluster_topics) \X (DOMAIN cluster_topics) : p[1] < p[2]}
        sims == [p \in pairs |->
                    Cos100(Encode(cluster_topics[p[1]]), Encode(cluster_topics[p[2]]))]
        RECURSIVE Total(_)
        Total(ps) == IF ps = {} THEN 0
                     ELSE LET p == CHOOSE q \in ps : TRUE
                          IN  sims[p] + Total(ps \ {p})
    IN  IF Len(cluster_topics) > 1 THEN Total(pairs) \div Cardinality(pairs) ELSE 100

\* the UmbrellaCluster of clusters[i]; label is what _generate_umbrella_label
\* answered for it
Umbrella(i, cluster_indices, label, topic_nodes, canonical_topics) ==
    LET cluster_topics == [k \in DOMAIN cluster_indices |->
                              canonical_topics[cluster_indices[k]]]
        cluster_nodes == SelectSeq(topic_nodes,
                                   LAMBDA node : node.canonical \in Range(cluster_topics))
        frequencies == [k \in DOMAIN cluster_nodes |-> cluster_nodes[k].frequency]
        sorted_nodes == SortDesc(cluster_nodes, frequencies)
    IN  [avg_coherence |-> AvgCoherence(cluster_topics),
         label |-> label,
         member_count |-> Len(cluster_topics),
         members |-> cluster_topics,
         representative_topics |->
             [k \in 1..Min(5, Len(sorted_nodes)) |-> sorted_nodes[k].canonical],
         stats |-> [avg_score |->
                        Sum([k \in DOMAIN cluster_nodes |-> cluster_nodes[k].avg_score])
                            \div Len(cluster_nodes),
                    max_frequency |->
                        CHOOSE f \in Range(frequencies) :
                            \A g \in Range(frequencies) : f >= g,
                    min_frequency |->
                        CHOOSE f \in Range(frequencies) :
                            \A g \in Range(frequencies) : f <= g],
         total_frequency |-> Sum(frequencies),
         umbrella_id |-> i,
         video_ids |-> UNION {Range(cluster_nodes[k].video_ids) :
                                k \in DOMAIN cluster_nodes}]

\* _build_umbrellas; raised: _generate_umbrella_label raised for a cluster
BuildUmbrellas(clusters, topic_nodes, canonical_topics) ==
    LET labels == [i \in DOMAIN clusters |->
                      GenerateUmbrellaLabel([k \in DOMAIN clusters[i] |->
                                                canonical_topics[clusters[i][k]]])]
        umbrellas == [i \in DOMAIN clusters |->
                         Umbrella(i, clusters[i], labels[i].label,
                                  topic_nodes, canonical_topics)]
    IN  IF \E i \in DOMAIN labels : labels[i].raised
        THEN [raised |-> TRUE, umbrellas |-> <<>>]
        ELSE [raised |-> FALSE,
              umbrellas |-> SortDesc(umbrellas,
                                     [i \in DOMAIN umbrellas |->
                                         umbrellas[i].total_frequency])]

\* the output dictionary of build_account_umbrellas without the sort by
\* member_count
UmbrellaOutputUnsorted(tags, canonical_topics, umbrellas, max_umbrellas) ==
    LET top_umbrellas == Take(umbrellas, max_umbrellas)
    IN  [canonical_topics |-> Len(canonical_topics),
         clustering_method |-> GetClusteringMethod(available),
         exists |-> TRUE,
         similarity_threshold |-> builder.similarity_threshold,
         total_clusters |-> Len(umbrellas),
         total_topics |-> Len(tags),
         umbrella_count |-> Len(top_umbrellas),
         umbrellas |-> top_umbrellas]

\* the output dictionary of build_account_umbrellas
UmbrellaOutput(tags, canonical_topics, umbrellas, max_umbrellas) ==
    LET by_size == SortDesc(umbrellas,
                            [i \in DOMAIN umbrellas |-> umbrellas[i].member_count])
        top_umbrellas == Take(by_size, max_umbrellas)
    IN  [canonical_topics |-> Len(canonical_topics),
         clustering_method |-> GetClusteringMethod(available),
         exists |-> TRUE,
         similarity_threshold |-> builder.similarity_threshold,
         total_clusters |-> Len(umbrellas),
         total_topics |-> Len(tags),
         umbrella_count |-> Len(top_umbrellas),
         umbrellas |-> top_umbrellas]

-----------------------------------------------------------------------------
(* Specification SpecUmb: build_account_umbrellas run any number of times   *)
(* on one account, by a builder of any configuration with any set of       *)
(* clustering libraries installed, while extract_all_topics may rewrite     *)
(* account_tags.json between the runs.                                      *)

\* max_umbrellas of build_account_umbrellas when the caller gives none
DefaultMaxUmbrellas == 5

\* the tags an account_tags.json can list, in descending combined_score
TagPool ==
    << [avg_score |-> 6000, combined_score |-> 18000, engagement_weight |-> 10000,
        frequency |-> 3, tag |-> <<"m", "i", "n", "d">>, video_ids |-> <<1, 2, 3>>],
       [avg_score |-> 5000, combined_score |-> 10000, engagement_weight |-> 10000,
        frequency |-> 2, tag |-> <<"d", "e", "e", "p", " ", "w", "o", "r", "k">>,
        video_ids |-> <<1, 2>>],
       [avg_score |-> 6000, combined_score |-> 6000, engagement_weight |-> 10000,
        frequency |-> 1, tag |-> <<"m", "i", "n", "d", "s", "e", "t">>,
        video_ids |-> <<2>>],
       [avg_score |-> 4000, combined_score |-> 4000, engagement_weight |-> 10000,
        frequency |-> 1, tag |-> <<"a", "i">>, video_ids |-> <<3>>] >>

\* the account_tags.json files: at most MaxTags tags of the pool
AccountTagsFiles ==
    {[exists |-> TRUE,
      tags |-> [k \in 1..Cardinality(S) |-> TagPool[Ascending(S)[k]]],
      total_tags |-> Cardinality(S),
      total_videos |-> 3] :
        S \in {T \in SUBSET DOMAIN TagPool : Cardinality(T) <= MaxTags}}

\* the merge_rules of config/canonical_topics.json
UmbrellaRules ==
    { <<>>, (<<"m", "i", "n", "d", "s", "e", "t">> :> <<"m", "i", "n", "d">>) }

\* UmbrellaBuilder(similarity_threshold, min_cluster_size)
BuilderPool ==
    [constructed : {TRUE}, min_cluster_size : {2, 3}, similarity_threshold : {50, 70}]

Backends == {"leiden", "louvain", "hdbscan"}

InitUmb ==
    /\ NoJobs
    /\ merge_rules \in UmbrellaRules
    /\ stop_lines = {}
    /\ stop_phrases = {}
    /\ canon = NoCall
    /\ call = NoCall
    /\ index = <<>>
    /\ v2_files = <<>>
    /\ run = [pc |-> "idle"]
    /\ v1_files = <<>>
    /\ account_tags \in {NoFile} \cup AccountTagsFiles
    /\ account_category = NoFile
    /\ builder \in BuilderPool
    /\ available \in SUBSET Backends
    /\ umbrella_file = NoFile
    /\ build = [pc |-> "idle"]

\* extract_all_topics rewrites account_tags.json
WriteAccountTags(file) ==
    /\ account_tags' = file
    /\ UNCHANGED <<jobVars, cfgVars, canon, call, acctVars, v1_files, account_category, umbVars>>

\* build_account_umbrellas ends: pc is "returned" or "raised", output the
\* dictionary written to topic_umbrellas.json and returned (NoFile: None was
\* returned and nothing written); the other fields record how far the call
\* went: the canonical topics of the tags it read, whether the similarity
\* graph was built, its adjacency and edge count, the backend called and its
\* clusters
BuildEnds(pc, output, max_umbrellas, topics, graph_built, adj, backend, clusters) ==
    /\ build' = [adj |-> adj, backend |-> backend, canonical_count |-> Len(topics),
                 clusters |-> clusters, edge_count |-> EdgeCount(adj),
                 graph_built |-> graph_built, max_umbrellas |-> max_umbrellas,
                 pc |-> pc, topics |-> topics, wrote |-> output.exists]
    /\ umbrella_file' = IF output.exists THEN output ELSE umbrella_file

\* the body of build_account_umbrellas for an account whose
\* topics/account_tags.json is tags_file
BuildBody(tags_file, max_umbrellas) ==
    /\ IF ~tags_file.exists
       THEN BuildEnds("returned", NoFile, max_umbrellas, <<>>, FALSE, <<>>, "none", <<>>)
       ELSE
       \E tags \in {tags_file.tags} :
       \E topic_nodes \in {TopicNodes(tags, merge_rules)} :
       \E canonical_topics \in {CanonicalTopics(topic_nodes)} :
          IF Len(tags) < builder.min_cluster_size
          THEN BuildEnds("returned", NoFile, max_umbrellas, canonical_topics, FALSE,
                         <<>>, "none", <<>>)
          ELSE
          \E adj \in {BuildSimilarityGraph(canonical_topics, builder.similarity_threshold)} :
          \E outcome \in ClusterTopics(adj, builder.min_cluster_size, available) :
             IF outcome.raised
             THEN BuildEnds("raised", NoFile, max_umbrellas, canonical_topics, TRUE,
                            adj, outcome.backend, <<>>)
             ELSE IF outcome.clusters = <<>>
             THEN BuildEnds("returned", NoFile, max_umbrellas, canonical_topics, TRUE,
                            adj, outcome.backend, <<>>)
             ELSE
             \E built \in {BuildUmbrellas(outcome.clusters, topic_nodes, canonical_topics)} :
                IF built.raised
                THEN BuildEnds("raised", NoFile, max_umbrellas, canonical_topics, TRUE,
                               adj, outcome.backend, outcome.clusters)
                ELSE BuildEnds("returned",
                               UmbrellaOutput(tags, canonical_topics, built.umbrellas,
                                              max_umbrellas),
                               max_umbrellas, canonical_topics, TRUE, adj,
                               outcome.backend, outcome.clusters)

\* build_account_umbrellas(username, max_umbrellas)
BuildAccountUmbrellas(max_umbrellas) ==
    /\ builder.constructed
    /\ BuildBody(account_tags, max_umbrellas)
    /\ UNCHANGED <<jobVars, cfgVars, canon, call, acctVars, aggVars, builder, available>>

NextUmb ==
    \/ \E file \in AccountTagsFiles : WriteAccountTags(file)
    \/ \E max_umbrellas \in {DefaultMaxUmbrellas} : BuildAccountUmbrellas(max_umbrellas)

SpecUmb == InitUmb /\ [][NextUmb]_vars

\* C5: when no pair of canonical topics reaches the similarity threshold (the
\* graph has no edge), build_account_umbrellas returns without raising and
\* yields no umbrellas, whichever backend the cascade selects.
C5_ZeroAdjacencyNoUmbrellas ==
    (build.pc # "idle" /\ build.graph_built /\ build.edge_count = 0)
        => (build.pc = "returned" /\ ~build.wrote)

\* C6: every cluster _cluster_topics returns, and every umbrella written,
\* has at least min_cluster_size members, for every backend of the cascade.
C6_ClustersAtLeastMinSize ==
    /\ build.pc # "idle"
          => \A i \in DOMAIN build.clusters :
                Len(build.clusters[i]) >= builder.min_cluster_size
    /\ umbrella_file.exists
          => \A i \in DOMAIN umbrella_file.umbrellas :
                umbrella_file.umbrellas[i].member_count >= builder.min_cluster_size

\* a run that wrote umbrellas while some canonical topic was left out of
\* every cluster (its community was smaller than min_cluster_size)
C6_Witness ==
    /\ build.pc = "returned"
    /\ build.wrote
    /\ build.backend \in {"leiden", "louvain", "connected_components"}
    /\ build.canonical_count > Len(Flatten(build.clusters))

\* C7: when the tags read have fewer distinct canonical topics than
\* min_cluster_size, the run is skipped entirely: no similarity graph is
\* built, no clustering backend is called, and it returns None without
\* raising, also when the raw tag count reaches min_cluster_size.
C7_FewCanonicalTopicsSkipped ==
    (build.pc # "idle" /\ build.canonical_count < builder.min_cluster_size)
        => /\ ~build.graph_built
           /\ build.backend = "none"
           /\ build.pc = "returned"
           /\ ~build.wrote

\* C8: after a run completes, topic_umbrellas.json reflects that run's
\* result: a run that found no cluster because the tags it read have no
\* pair of similar topics leaves no umbrellas of an earlier run in the file.
C8_UmbrellaFileReplacedEachRun ==
    (build.pc = "returned" /\ ~build.wrote /\ build.edge_count = 0)
        => (~umbrella_file.exists \/ umbrella_file.umbrellas = <<>>)

\* C13: in the similarity graph an edge joins two distinct topics exactly
\* when their cosine similarity is >= the threshold; the adjacency is
\* symmetric, has no self-loops, and edge_count is the number of unordered
\* adjacent pairs.
C13_EdgesAtOrAboveThreshold ==
    (build.pc # "idle" /\ build.graph_built)
        => /\ \A i, j \in DOMAIN build.topics :
                 i # j =>
                    (j \in build.adj[i]
                        <=> Cos100(Encode(build.topics[i]), Encode(build.topics[j]))
                               >= builder.similarity_threshold)
           /\ \A i \in DOMAIN build.adj : i \notin build.adj[i]
           /\ \A i, j \in DOMAIN build.adj : j \in build.adj[i] <=> i \in build.adj[j]
           /\ build.edge_count =
                 Cardinality({e \in SUBSET DOMAIN build.adj :
                                 \E i, j \in DOMAIN build.adj :
                                    e = {i, j} /\ i # j /\ j \in build.adj[i]})

\* a graph with a pair exactly at the threshold, which is adjacent, and a
\* pair below it, which is not
C13_Witness ==
    /\ build.pc # "idle"
    /\ build.graph_built
    /\ \E i, j \in DOMAIN build.topics :
          /\ Cos100(Encode(build.topics[i]), Encode(build.topics[j]))
                = builder.similarity_threshold
          /\ j \in build.adj[i]
    /\ \E i, j \in DOMAIN build.topics : i # j /\ j \notin build.adj[i]
    /\ build.edge_count > 0

\* C14: the backend that clusters is the first available one in the order
\* Leiden, Louvain, HDBSCAN, connected components, and the clustering_method
\* written by a run names the backend that produced that run's clusters.
C14_MethodNamesBackendUsed ==
    /\ (build.pc # "idle" /\ build.graph_built)
          => build.backend =
                IF "leiden" \in available THEN "leiden"
                ELSE IF "louvain" \in available THEN "louvain"
                ELSE IF "hdbscan" \in available THEN "hdbscan"
                ELSE "connected_components"
    /\ (build.pc = "returned" /\ build.wrote)
          => umbrella_file.clustering_method = build.backend

\* a run that wrote umbrellas clustered by Leiden although Louvain and
\* HDBSCAN were installed too
C14_Witness ==
    /\ build.pc = "returned"
    /\ build.wrote
    /\ available = {"leiden", "louvain", "hdbscan"}
    /\ build.backend = "leiden"
    /\ umbrella_file.clustering_method = "leiden"

-----------------------------------------------------------------------------
(* Specification SpecUmbOnce: one call of build_account_umbrellas, with any *)
(* max_umbrellas, on an account that has up to MaxWideTags tags and no      *)
(* topic_umbrellas.json yet.                                                *)

\* the tags of the account, in descending combined_score
WideTagPool ==
    << TagPool[1], TagPool[2],
       [avg_score |-> 4000, combined_score |-> 8000, engagement_weight |-> 10000,
        frequency |-> 2, tag |-> <<"f", "o", "c", "u", "s">>, video_ids |-> <<1, 3>>],
       TagPool[3], TagPool[4] >>

WideAccountTagsFiles ==
    {[exists |-> TRUE,
      tags |-> [k \in 1..Cardinality(S) |-> WideTagPool[Ascending(S)[k]]],
      total_tags |-> Cardinality(S),
      total_videos |-> 3] :
        S \in {T \in SUBSET DOMAIN WideTagPool : Cardinality(T) <= MaxWideTags}}

InitUmbOnce ==
    /\ NoJobs
    /\ merge_rules \in UmbrellaRules
    /\ stop_lines = {}
    /\ stop_phrases = {}
    /\ canon = NoCall
    /\ call = NoCall
    /\ index = <<>>
    /\ v2_files = <<>>
    /\ run = [pc |-> "idle"]
    /\ v1_files = <<>>
    /\ account_tags \in WideAccountTagsFiles
    /\ account_category = NoFile
    /\ builder \in BuilderPool
    /\ available \in SUBSET Backends
    /\ umbrella_file = NoFile
    /\ build = [pc |-> "idle"]

\* build_account_umbrellas(username, max_umbrellas), the first call
BuildOnce(max_umbrellas) ==
    /\ build.pc = "idle"
    /\ BuildAccountUmbrellas(max_umbrellas)

NextUmbOnce == \E max_umbrellas \in {1, 2, DefaultMaxUmbrellas} : BuildOnce(max_umbrellas)

SpecUmbOnce == InitUmbOnce /\ [][NextUmbOnce]_vars

\* C15: the output lists the umbrellas in non-increasing member_count, holds
\* exactly min(total_clusters, max_umbrellas) of them, umbrella_count is the
\* number listed, total_clusters the number of clusters before truncation,
\* and no omitted cluster has more members than a listed one.
C15_LargestClustersListed ==
    (build.pc = "returned" /\ build.wrote)
        => /\ \A i, j \in DOMAIN umbrella_file.umbrellas :
                 i < j => umbrella_file.umbrellas[i].member_count
                             >= umbrella_file.umbrellas[j].member_count
           /\ Len(umbrella_file.umbrellas)
                 = Min(umbrella_file.total_clusters, build.max_umbrellas)
           /\ umbrella_file.umbrella_count = Len(umbrella_file.umbrellas)
           /\ umbrella_file.total_clusters = Len(build.clusters)
           /\ \A c \in DOMAIN build.clusters :
                 LET listed == \E u \in DOMAIN umbrella_file.umbrellas :
                                  Range(umbrella_file.umbrellas[u].members)
                                     = {build.topics[k] : k \in Range(build.clusters[c])}
                 IN  \/ listed
                     \/ \A u \in DOMAIN umbrella_file.umbrellas :
                           Len(build.clusters[c])
                              <= umbrella_file.umbrellas[u].member_count

\* a run that found a cluster of three topics and one of two, the smaller
\* with the higher total frequency, and was asked for one umbrella
C15_Witness ==
    /\ build.pc = "returned"
    /\ build.wrote
    /\ build.max_umbrellas = 1
    /\ umbrella_file.total_clusters = 2
    /\ umbrella_file.umbrella_count = 1
    /\ umbrella_file.umbrellas[1].member_count = 3
    /\ umbrella_file.umbrellas[1].total_frequency < 5
    /\ \E c \in DOMAIN build.clusters : Len(build.clusters[c]) = 2

\* C27: the clusters of one run are pairwise disjoint: no canonical topic is
\* a member of two umbrellas, every member of an umbrella is one of the
\* canonical topics of the run, and member_count is the number of distinct
\* members.
C27_ClustersDisjoint ==
    (build.pc # "idle")
        => /\ \A i, j \in DOMAIN build.topics : i # j => build.topics[i] # build.topics[j]
           /\ \A c \in DOMAIN build.clusters :
                 /\ Range(build.clusters[c]) \subseteq DOMAIN build.topics
                 /\ \A k, l \in DOMAIN build.clusters[c] :
                       k # l => build.clusters[c][k] # build.clusters[c][l]
           /\ \A c, d \in DOMAIN build.clusters :
                 c # d => Range(build.clusters[c]) \cap Range(build.clusters[d]) = {}
           /\ build.wrote
                 => /\ \A u, v \in DOMAIN umbrella_file.umbrellas :
                          u # v => Range(umbrella_file.umbrellas[u].members)
                                      \cap Range(umbrella_file.umbrellas[v].members) = {}
                    /\ \A u \in DOMAIN umbrella_file.umbrellas :
                          /\ Range(umbrella_file.umbrellas[u].members)
                                \subseteq Range(build.topics)
                          /\ umbrella_file.umbrellas[u].member_count
                                = Cardinality(Range(umbrella_file.umbrellas[u].members))

\* a run on five tags, two of them with one canonical form, that wrote two
\* umbrellas
C27_Witness ==
    /\ build.pc = "returned"
    /\ build.wrote
    /\ Len(account_tags.tags) = 5
    /\ build.canonical_count = 4
    /\ Len(umbrella_file.umbrellas) = 2

\* C28: for every umbrella, representative_topics has at most 5 entries,
\* each of them a member of the umbrella, in non-increasing frequency (of the
\* most frequent tag of the topic), and lists no canonical topic twice, also
\* when several tags share one canonical form.
C28_RepresentativeTopics ==
    (build.pc = "returned" /\ build.wrote)
        => LET nodes == TopicNodes(account_tags.tags, merge_rules)
               frequency(c) ==
                   CHOOSE f \in {nodes[n].frequency : n \in DOMAIN nodes} :
                       /\ \E n \in DOMAIN nodes :
                             nodes[n].canonical = c /\ nodes[n].frequency = f
                       /\ \A n \in DOMAIN nodes :
                             nodes[n].canonical = c => nodes[n].frequency <= f
           IN  \A u \in DOMAIN umbrella_file.umbrellas :
                  LET reps == umbrella_file.umbrellas[u].representative_topics
                  IN  /\ Len(reps) <= 5
                      /\ Range(reps) \subseteq Range(umbrella_file.umbrellas[u].members)
                      /\ \A k, l \in DOMAIN reps :
                            k < l => frequency(reps[k]) >= frequency(reps[l])
                      /\ \A k, l \in DOMAIN reps : k # l => reps[k] # reps[l]

-----------------------------------------------------------------------------
(* Specification SpecBatch: the loops over accounts that build umbrellas:    *)
(* UmbrellaBuilder.build_all_accounts and the post-processing loop of        *)
(* IngestionQueueManager.run_ingestion. One action is one iteration.         *)

\* the except clause of an iteration missing: the exception leaves the loop
LoopAfterUncaught(raised) == IF raised THEN "escaped" ELSE "next"

\* try: ... except Exception: log (and continue): the loop goes on to the
\* next account whether the iteration raised or not
LoopAfter(raised) == "next"

\* the account_tags.json of the accounts of a batch: none, or two tags
BatchTagsFiles == {NoFile} \cup {f \in AccountTagsFiles : f.total_tags = 2}

\* UmbrellaBuilder(): the default arguments
DefaultBuilder == [constructed |-> TRUE, min_cluster_size |-> 2, similarity_threshold |-> 70]

\* the step of an iteration of run_ingestion that raises, apart from the
\* umbrella build: extract_all_topics, extract_account_topics_v2,
\* UmbrellaBuilder(), index_account
PostFaults == {"none", "topics_v1", "topics_v2", "builder", "index"}

\* an account of the batch: eligible is status == COMPLETE and
\* processed_videos > 0 (run_ingestion)
BatchAccount(tags_file, eligible) ==
    [account_tags |-> tags_file, eligible |-> eligible, outcome |-> "pending"]

InitBatch ==
    /\ merge_rules = <<>>
    /\ stop_lines = {}
    /\ stop_phrases = {}
    /\ canon = NoCall
    /\ call = NoCall
    /\ index = <<>>
    /\ v2_files = <<>>
    /\ run = [pc |-> "idle"]
    /\ v1_files = <<>>
    /\ account_tags = NoFile
    /\ account_category = NoFile
    /\ available \in SUBSET Backends
    /\ umbrella_file = NoFile
    /\ build = [pc |-> "idle"]
    /\ ingestion = [pc |-> "idle"]
    /\ worker = [pc |-> "idle"]
    /\ job = [pc |-> "idle"]
    /\ \E fn \in {"build_all_accounts", "run_ingestion"} :
          /\ builder \in IF fn = "run_ingestion" THEN {DefaultBuilder} ELSE BuilderPool
          /\ \E files \in [1..NumAccounts -> BatchTagsFiles],
                eligible \in [1..NumAccounts -> BOOLEAN] :
                /\ fn = "build_all_accounts" => \A a \in 1..NumAccounts : eligible[a]
                /\ batch = [accounts |-> [a \in 1..NumAccounts |->
                                             BatchAccount(files[a], eligible[a])],
                            cancelled |-> FALSE,
                            fn |-> fn,
                            pc |-> "idle",
                            pos |-> 1,
                            queue |-> <<>>]

\* the loop ends an iteration: the outcome of the account is recorded and
\* the loop goes to the next account, ends, or lets the exception out
BatchNext(outcome, raised) ==
    batch' = [batch EXCEPT
                 !.accounts[batch.queue[batch.pos]].outcome = outcome,
                 !.pos = @ + 1,
                 !.pc = IF LoopAfter(raised) = "escaped" THEN "escaped"
                        ELSE IF batch.pos = Len(batch.queue) THEN "done"
                        ELSE "running"]

\* build_all_accounts up to the loop: the accounts with an account_tags.json
StartBuildAll ==
    /\ batch.pc = "idle"
    /\ batch.fn = "build_all_accounts"
    /\ \E queue \in {SelectSeq([a \in 1..NumAccounts |-> a],
                               LAMBDA a : batch.accounts[a].account_tags.exists)} :
          batch' = [batch EXCEPT !.queue = queue,
                                 !.pc = IF queue = <<>> THEN "done" ELSE "running"]
    /\ UNCHANGED <<ingestion, worker, job, cfgVars, canon, call, acctVars, aggVars, umbVars>>

\* one iteration of `for username in accounts` of build_all_accounts
BuildAllAccount ==
    /\ batch.pc = "running"
    /\ batch.fn = "build_all_accounts"
    /\ BuildBody(batch.accounts[batch.queue[batch.pos]].account_tags, DefaultMaxUmbrellas)
    /\ BatchNext(IF build'.pc = "raised" THEN "umbrella_raised"
                 ELSE IF build'.wrote THEN "built" ELSE "none",
                 build'.pc = "raised")
    /\ UNCHANGED <<ingestion, worker, job, cfgVars, canon, call, acctVars, aggVars,
                   builder, available>>

\* run_ingestion reaches the post-processing loop over job.accounts
StartPostProcessing(cancelled) ==
    /\ batch.pc = "idle"
    /\ batch.fn = "run_ingestion"
    /\ batch' = [batch EXCEPT !.queue = [a \in 1..NumAccounts |-> a],
                              !.cancelled = cancelled,
                              !.pc = "running"]
    /\ UNCHANGED <<ingestion, worker, job, cfgVars, canon, call, acctVars, aggVars, umbVars>>

\* one iteration of `for account_progress in job.accounts`
PostProcessAccount(fault) ==
    /\ batch.pc = "running"
    /\ batch.fn = "run_ingestion"
    /\ IF batch.cancelled
       THEN /\ batch' = [batch EXCEPT !.pc = "done"]
            /\ UNCHANGED <<umbrella_file, build>>
       ELSE IF ~batch.accounts[batch.queue[batch.pos]].eligible
       THEN /\ BatchNext("skipped", FALSE)
            /\ UNCHANGED <<umbrella_file, build>>
       ELSE IF fault \in {"topics_v1", "topics_v2", "builder"}
       THEN /\ BatchNext("topics_raised", TRUE)
            /\ UNCHANGED <<umbrella_file, build>>
       ELSE /\ BuildBody(batch.accounts[batch.queue[batch.pos]].account_tags,
                         DefaultMaxUmbrellas)
            /\ BatchNext(IF build'.pc = "raised" THEN "umbrella_raised"
                         ELSE IF fault = "index" THEN "index_raised"
                         ELSE IF build'.wrote THEN "built" ELSE "none",
                         build'.pc = "raised" \/ fault = "index")
    /\ UNCHANGED <<ingestion, worker, job, cfgVars, canon, call, acctVars, aggVars,
                   builder, available>>

NextBatch ==
    \/ StartBuildAll
    \/ BuildAllAccount
    \/ \E cancelled \in BOOLEAN : StartPostProcessing(cancelled)
    \/ \E fault \in PostFaults : PostProcessAccount(fault)

SpecBatch == InitBatch /\ [][NextBatch]_vars

\* C18: an exception while building the umbrellas of one account does not
\* keep the loop from the accounts after it, and no exception leaves the
\* loop: when the loop has ended without a cancellation, every account after
\* one whose build raised has been handled.
C18_AccountFailureIsolated ==
    /\ batch.pc # "escaped"
    /\ (batch.pc = "done" /\ ~batch.cancelled)
          => \A i, j \in DOMAIN batch.queue :
                (/\ i < j
                 /\ batch.accounts[batch.queue[i]].outcome = "umbrella_raised")
                   => batch.accounts[batch.queue[j]].outcome # "pending"

\* a loop that ended after the build of its first account raised and the
\* build of its second account wrote umbrellas
C18_Witness ==
    /\ batch.pc = "done"
    /\ ~batch.cancelled
    /\ Len(batch.queue) >= 2
    /\ batch.accounts[batch.queue[1]].outcome = "umbrella_raised"
    /\ batch.accounts[batch.queue[2]].outcome = "built"

-----------------------------------------------------------------------------
(* Specification SpecMmr: the scoring helpers of TopicExtractorV2 called    *)
(* on their own: steps 2 to 4 of extract_video_topics_enhanced (candidates  *)
(* and _compute_mmr) for any top_n, and _compute_confidence for any score.  *)

\* the noun phrases handed over, repetitions included; a phrase has one
\* embedding wherever it occurs
MmrNounPhraseLists ==
    {[i \in DOMAIN ps |-> [angle |-> e[ps[i]], phrase |-> ps[i]]] :
        ps \in UNION {[1..k -> NounPhrasePool] : k \in 0..MaxPhrases},
        e \in [NounPhrasePool -> Angles]}

\* mmr scores, in units of 1e-4: below -0.5, in the usual range, above 0.7
MmrScorePool == {-20000, -10000, -5001, -5000, -1000, 0, 3500, 7000, 7001, 10000, 20000}

InitMmr ==
    /\ NoJobs
    /\ merge_rules = ExtractMergeTable
    /\ stop_lines = {}
    /\ stop_phrases = LoadStopPhrases(stop_lines)
    /\ canon = NoCall
    /\ call = NoCall
    /\ NoAccount

\* candidates of noun_phrases, then _compute_mmr(candidates, doc_embedding,
\* lambda_param, top_n)
MmrCall(noun_phrases, lambda_param, top_n) ==
    /\ ~call.called
    /\ \E kept \in {Candidates(noun_phrases)} :
          call' = [called |-> TRUE,
                   candidates |-> [i \in DOMAIN kept |-> kept[i].phrase],
                   fn |-> "mmr",
                   lambda_param |-> lambda_param,
                   noun_phrases |-> noun_phrases,
                   ret |-> ComputeMmr([i \in DOMAIN kept |-> kept[i].phrase],
                                      [i \in DOMAIN kept |-> kept[i].angle],
                                      lambda_param, top_n),
                   top_n |-> top_n]
    /\ UNCHANGED <<jobVars, cfgVars, canon, acctVars, aggVars, umbVars>>

\* _compute_confidence(mmr_score, evidence_count)
ConfidenceCall(mmr_score, evidence_count) ==
    /\ ~call.called
    /\ call' = [boost |-> EvidenceBoost(evidence_count),
                called |-> TRUE,
                evidence_count |-> evidence_count,
                fn |-> "confidence",
                mmr_score |-> mmr_score,
                ret |-> ComputeConfidence(mmr_score, evidence_count)]
    /\ UNCHANGED <<jobVars, cfgVars, canon, acctVars, aggVars, umbVars>>

\* list(set(candidates)) when the same noun phrases are processed a second
\* time: the order of the first time inside the same interpreter, any order
\* in another one (the hashes of str are salted per process)
SetOrders(kept, same_process) ==
    IF same_process THEN {kept}
    ELSE {q \in OrderedSubsets(Range(kept), Len(kept)) : Len(q) = Len(kept)}

\* the transcript of the last call processed again, with the same parameters
MmrAgain(same_process) ==
    /\ call.called
    /\ call.fn = "mmr"
    /\ "first" \notin DOMAIN call
    /\ \E kept \in SetOrders(Candidates(call.noun_phrases), same_process) :
          call' = [called |-> TRUE,
                   candidates |-> [i \in DOMAIN kept |-> kept[i].phrase],
                   first |-> call.ret,
                   fn |-> "mmr",
                   lambda_param |-> call.lambda_param,
                   noun_phrases |-> call.noun_phrases,
                   ret |-> ComputeMmr([i \in DOMAIN kept |-> kept[i].phrase],
                                      [i \in DOMAIN kept |-> kept[i].angle],
                                      call.lambda_param, call.top_n),
                   same_process |-> same_process,
                   top_n |-> call.top_n]
    /\ UNCHANGED <<jobVars, cfgVars, canon, acctVars, aggVars, umbVars>>

NextMmr ==
    \/ /\ ~call.called
       /\ \E nps \in MmrNounPhraseLists, lambda_param \in {0, 70, 100},
             top_n \in 0..MaxPhrases :
               MmrCall(nps, lambda_param, top_n)
    \/ \E same_process \in BOOLEAN : MmrAgain(same_process)
    \/ /\ ~call.called
       /\ \E mmr_score \in MmrScorePool, evidence_count \in 0..MaxEvidence :
               ConfidenceCall(mmr_score, evidence_count)
    \/ ExtractReturn

SpecMmr == InitMmr /\ [][NextMmr]_vars

\* C11: _compute_mmr returns at most top_n pairs and at most one pair per
\* candidate: no phrase is returned twice and every returned phrase is one
\* of the candidates.
C11_MmrBounded ==
    (call.called /\ call.fn = "mmr")
        => /\ Len(call.ret) <= call.top_n
           /\ Len(call.ret) <= Len(call.candidates)
           /\ \A i, j \in DOMAIN call.ret :
                 i # j => call.ret[i].phrase # call.ret[j].phrase
           /\ \A i \in DOMAIN call.ret : call.ret[i].phrase \in Range(call.candidates)

\* a call whose noun phrases repeat a phrase and leave more candidates than
\* top_n, answered with top_n pairs
C11_Witness ==
    /\ call.called
    /\ call.fn = "mmr"
    /\ Len(call.noun_phrases) > Len(call.candidates)
    /\ Len(call.candidates) > call.top_n
    /\ call.top_n > 0
    /\ Len(call.ret) = call.top_n

\* C12: _compute_confidence returns a value in [0, 1] for every mmr_score
\* and every evidence_count >= 0, and its evidence boost is at most 0.3.
C12_ConfidenceInRange ==
    (call.called /\ call.fn = "confidence")
        => /\ call.ret >= 0
           /\ call.ret <= 1000
           /\ call.boost <= 300000

\* a score above 0.7 with evidence enough for the full boost, answered 1.0
C12_Witness ==
    /\ call.called
    /\ call.fn = "confidence"
    /\ call.mmr_score > 7000
    /\ Log1pE6(call.evidence_count) \div 10 > 300000
    /\ call.ret = 1000

\* C22: MMR selection is greedy and deterministic: every round picks, among
\* the candidates still remaining, one whose value of
\* lambda * relevance - (1 - lambda) * (greatest similarity to a selected one,
\* 0 in the first round) is the greatest, the earliest candidate among equals,
\* and the same transcript processed twice gives the same ordered list of
\* (phrase, score) pairs.
C22_GreedyDeterministic ==
    (call.called /\ call.fn = "mmr")
        => LET at(p) == CHOOSE i \in DOMAIN call.candidates : call.candidates[i] = p
               angle(p) == call.noun_phrases[CHOOSE i \in DOMAIN call.noun_phrases :
                                                call.noun_phrases[i].phrase = p].angle
               emb == [i \in DOMAIN call.candidates |-> angle(call.candidates[i])]
               earlier(r) == [k \in 1..(r - 1) |-> [idx |-> at(call.ret[k].phrase)]]
               left(r) == DOMAIN call.candidates
                             \ {at(call.ret[k].phrase) : k \in 1..(r - 1)}
               mmr(i, r) == MmrScore(emb, call.lambda_param, i, earlier(r))
           IN  /\ \A r \in DOMAIN call.ret :
                     /\ call.ret[r].phrase \in Range(call.candidates)
                     /\ at(call.ret[r].phrase) \in left(r)
                     /\ call.ret[r].score = mmr(at(call.ret[r].phrase), r)
                     /\ \A i \in left(r) : mmr(i, r) <= call.ret[r].score
                     /\ \A i \in left(r) :
                           i < at(call.ret[r].phrase) => mmr(i, r) < call.ret[r].score
               /\ "first" \in DOMAIN call => call.ret = call.first

-----------------------------------------------------------------------------
(* Specification SpecWorker: worker.main after its import; handlers are      *)
(* registered with register_handler and jobs handed to process_job.          *)

\* the job kinds asked for: the member of JobKind and two values that are none
KindPool == {"GENERATE_PLAN", "UNKNOWN_JOB", "PUBLISH"}

\* the functions register_handler is given
HandlerPool == {"handle_generate_plan", "handle_other"}

\* the job payloads
JobDataPool ==
    { [plan_id |-> "test-789", user_id |-> "user-123"],
      [plan_id |-> "test-123"],
      [user_id |-> "user-123"] }

\* dict.get(key): None is [exists |-> FALSE]
Get(dict, key) ==
    IF key \in DOMAIN dict THEN [exists |-> TRUE, value |-> dict[key]] ELSE NoFile

\* the lookup that answers handle_generate_plan for a key it does not hold
GetOrGeneratePlan(dict, key) ==
    IF key \in DOMAIN dict THEN [exists |-> TRUE, value |-> dict[key]]
    ELSE [exists |-> TRUE, value |-> "handle_generate_plan"]

\* JOB_HANDLERS.get(job_kind)
GetHandler(handlers, job_kind) == Get(handlers, job_kind)

\* await handler(job_data)
RunHandler(handler, job_data) ==
    IF handler = "handle_generate_plan"
    THEN [message |-> "Hermes Phase 0: GENERATE_PLAN stub executed",
          plan_id |-> Get(job_data, "plan_id"),
          status |-> "completed"]
    ELSE [message |-> "other", plan_id |-> NoFile, status |-> "other"]

\* the module after import: @register_handler(JobKind.GENERATE_PLAN) has run
InitWorker ==
    /\ merge_rules = ExtractMergeTable
    /\ stop_lines = {}
    /\ stop_phrases = {}
    /\ canon = NoCall
    /\ call = NoCall
    /\ NoAccount
    /\ batch = [pc |-> "idle"]
    /\ ingestion = [pc |-> "idle"]
    /\ job = [pc |-> "idle"]
    /\ worker = [handlers |-> [k \in {"GENERATE_PLAN"} |-> "handle_generate_plan"],
                 pc |-> "ready"]

\* register_handler(job_kind)(func)
RegisterHandler(job_kind, func) ==
    /\ worker.pc = "ready"
    /\ worker' = [handlers |-> [k \in DOMAIN worker.handlers \cup {job_kind} |->
                                   IF k = job_kind THEN func ELSE worker.handlers[k]],
                  pc |-> "ready"]
    /\ UNCHANGED <<batch, ingestion, job, cfgVars, canon, call, acctVars, aggVars, umbVars>>

\* process_job(job_kind, job_data): ran lists the handlers invoked
ProcessJob(job_kind, job_data) ==
    /\ worker.pc = "ready"
    /\ \E handler \in {GetHandler(worker.handlers, job_kind)} :
          worker' = [handlers |-> worker.handlers,
                     job_data |-> job_data,
                     job_kind |-> job_kind,
                     pc |-> "called",
                     raised |-> IF handler.exists THEN "none" ELSE "ValueError",
                     ran |-> IF handler.exists THEN <<handler.value>> ELSE <<>>,
                     ret |-> IF handler.exists THEN RunHandler(handler.value, job_data)
                             ELSE [message |-> "", plan_id |-> NoFile, status |-> ""]]
    /\ UNCHANGED <<batch, ingestion, job, cfgVars, canon, call, acctVars, aggVars, umbVars>>

\* the caller takes the result or the exception
ProcessJobReturn ==
    /\ worker.pc = "called"
    /\ worker' = [handlers |-> worker.handlers, pc |-> "ready"]
    /\ UNCHANGED <<batch, ingestion, job, cfgVars, canon, call, acctVars, aggVars, umbVars>>

NextWorker ==
    \/ \E job_kind \in KindPool, func \in HandlerPool : RegisterHandler(job_kind, func)
    \/ \E job_kind \in KindPool, job_data \in JobDataPool : ProcessJob(job_kind, job_data)
    \/ ProcessJobReturn

SpecWorker == InitWorker /\ [][NextWorker]_vars

\* C20: process_job invokes exactly the handler registered for the job kind
\* and returns its result (handle_generate_plan answers status 'completed'
\* with the plan_id of the payload); for a kind without a registered handler
\* it raises ValueError and runs no handler.
C20_RoutesToRegisteredHandler ==
    worker.pc = "called"
        => IF worker.job_kind \in DOMAIN worker.handlers
           THEN /\ worker.ran = <<worker.handlers[worker.job_kind]>>
                /\ worker.raised = "none"
                /\ worker.handlers[worker.job_kind] = "handle_generate_plan"
                      => /\ worker.ret.status = "completed"
                         /\ worker.ret.plan_id.exists = ("plan_id" \in DOMAIN worker.job_data)
                         /\ worker.ret.plan_id.exists
                               => worker.ret.plan_id.value = worker.job_data.plan_id
                /\ worker.handlers[worker.job_kind] # "handle_generate_plan"
                      => worker.ret.status # "completed"
           ELSE /\ worker.raised = "ValueError"
                /\ worker.ran = <<>>

\* a GENERATE_PLAN job with plan_id test-789 answered by the stub while
\* another kind has a handler of its own
C20_Witness ==
    /\ worker.pc = "called"
    /\ worker.job_kind = "GENERATE_PLAN"
    /\ worker.handlers["GENERATE_PLAN"] = "handle_generate_plan"
    /\ "PUBLISH" \in DOMAIN worker.handlers
    /\ "plan_id" \in DOMAIN worker.job_data
    /\ worker.job_data.plan_id = "test-789"
    /\ worker.ret.status = "completed"
    /\ worker.ret.plan_id.value = "test-789"

-----------------------------------------------------------------------------
(* Specification SpecIngest: IdempotentIngestionManager.ingest_account run   *)
(* up to MaxRuns times over the same fetched video list. One action is one  *)
(* iteration of the loop over new_videos; index.json is saved after each.    *)

\* the videos that are not recorded as successfully processed
FilterNewVideosRetryFailed(all_videos, processed) ==
    SelectSeq(all_videos, LAMBDA v : ~(processed[v].exists /\ processed[v].success))

\* filter_new_videos: the videos whose id is no key of processed_videos
FilterNewVideos(all_videos, processed) ==
    SelectSeq(all_videos, LAMBDA v : ~processed[v].exists)

\* the processed_videos entry mark_video_processed writes; now stands for
\* datetime.now()
IndexEntry(metadata, success, now) ==
    [exists |-> TRUE,
     processed_at |-> now,
     success |-> success,
     transcript_file |-> success,
     transcription_length |-> IF success THEN metadata.transcription_length ELSE 0]

\* what process_single_video answers, "exception" being one it lets out
ResultPool ==
    { [kind |-> "success", transcription_length |-> MinTranscriptLen],
      [kind |-> "skipped", transcription_length |-> 0],
      [kind |-> "failed", transcription_length |-> 0],
      [kind |-> "exception", transcription_length |-> 0] }

\* the index.json found: no entry, or entries an earlier ingestion left
InitIngest ==
    /\ merge_rules = ExtractMergeTable
    /\ stop_lines = {}
    /\ stop_phrases = {}
    /\ canon = NoCall
    /\ call = NoCall
    /\ NoAccount
    /\ batch = [pc |-> "idle"]
    /\ worker = [pc |-> "idle"]
    /\ job = [pc |-> "idle"]
    /\ \E fetched \in OrderedSubsets(1..NumFetched, NumFetched),
          recorded \in SUBSET (1..NumFetched) :
          ingestion =
             [fetched |-> fetched,
              handled |-> 0,
              new_videos |-> <<>>,
              pc |-> "ready",
              pos |-> 1,
              processed_videos |->
                  [v \in 1..NumFetched |->
                      IF v \in recorded
                      THEN IndexEntry([transcription_length |-> MinTranscriptLen],
                                      v = 1, 0)
                      ELSE NoFile],
              run_no |-> 0,
              started_with |-> {}]

\* ingest_account up to the loop: fetch, filter, return when nothing is new
StartIngest ==
    /\ ingestion.pc = "ready"
    /\ ingestion.run_no < MaxRuns
    /\ \E new_videos \in {FilterNewVideos(ingestion.fetched, ingestion.processed_videos)} :
          ingestion' = [ingestion EXCEPT
                           !.run_no = @ + 1,
                           !.handled = 0,
                           !.new_videos = new_videos,
                           !.pos = 1,
                           !.started_with =
                               {v \in 1..NumFetched : ingestion.processed_videos[v].exists},
                           !.pc = IF ingestion.fetched = <<>> \/ new_videos = <<>>
                                  THEN "ready" ELSE "running"]
    /\ UNCHANGED <<batch, worker, job, cfgVars, canon, call, acctVars, aggVars, umbVars>>

\* one iteration of `for i, video in enumerate(new_videos, 1)`: the entry is
\* marked (success only for a successful result) and the index saved
IngestVideo(result) ==
    /\ ingestion.pc = "running"
    /\ \E video_id \in {ingestion.new_videos[ingestion.pos]} :
          ingestion' = [ingestion EXCEPT
                           !.processed_videos[video_id] =
                               IndexEntry(result, result.kind = "success",
                                          ingestion.run_no),
                           !.handled = @ + 1,
                           !.pos = @ + 1,
                           !.pc = IF ingestion.pos = Len(ingestion.new_videos)
                                  THEN "ready" ELSE "running"]
    /\ UNCHANGED <<batch, worker, job, cfgVars, canon, call, acctVars, aggVars, umbVars>>

NextIngest ==
    \/ StartIngest
    \/ \E result \in ResultPool : IngestVideo(result)

SpecIngest == InitIngest /\ [][NextIngest]_vars

\* C19: once ingest_account has run over the fetched list, a later run over
\* the same list processes no video: every video recorded in index.json,
\* succeeded or not, is filtered out, and no step of a run changes the entry
\* of a video that was recorded when the run started.
C19_SecondRunProcessesNothing ==
    /\ [](ingestion.run_no >= 2
             => /\ ingestion.new_videos = <<>>
                /\ ingestion.handled = 0
                /\ ingestion.pc = "ready")
    /\ [](\A k \in DOMAIN ingestion.new_videos :
             ingestion.new_videos[k] \notin ingestion.started_with)
    /\ [][\A v \in 1..NumFetched :
             (ingestion.pc = "running" /\ v \in ingestion.started_with)
                => ingestion'.processed_videos[v] = ingestion.processed_videos[v]]_vars

\* the second run over three videos the first run recorded as transcribed,
\* not transcribed and transcribed: nothing was new
C19_Witness ==
    /\ ingestion.run_no = 2
    /\ ingestion.pc = "ready"
    /\ Len(ingestion.fetched) = NumFetched
    /\ \A v \in 1..NumFetched : ingestion.processed_videos[v].exists
    /\ \E v, w \in 1..NumFetched :
          /\ ingestion.processed_videos[v].processed_at = 1
          /\ ingestion.processed_videos[v].success
          /\ ingestion.processed_videos[w].processed_at = 1
          /\ ~ingestion.processed_videos[w].success
    /\ ingestion.new_videos = <<>>
    /\ ingestion.handled = 0

-----------------------------------------------------------------------------
(* Specification SpecEvidence: step 5 of extract_video_topics_enhanced for  *)
(* one selected phrase: _find_evidence over the sentence list or over the   *)
(* transcript, then _compute_confidence with len(evidence).                 *)

\* most sentences of a transcript searched for evidence
MaxSentences == 6

\* str.split(sep): the pieces between the separators, empty ones included
SplitOn(s, sep) ==
    LET at == {i \in DOMAIN s : s[i] = sep}
        pos(k) == IF k = 0 THEN 0
                  ELSE IF k > Cardinality(at) THEN Len(s) + 1
                  ELSE CHOOSE i \in at : Cardinality({j \in at : j < i}) = k - 1
    IN  [k \in 1..(Cardinality(at) + 1) |-> SubSeq(s, pos(k - 1) + 1, pos(k) - 1)]

\* [s.strip() for s in full_transcript.split('.') if s.strip()]
SentencePieces(full_transcript) ==
    LET parts == SplitOn(full_transcript, ".")
        stripped == [i \in DOMAIN parts |-> Strip(parts[i])]
    IN  SelectSeq(stripped, LAMBDA x : x # <<>>)

\* a sentence one character longer than the excerpt kept
LongSentence == [i \in 1..(ExcerptLen + 1) |-> IF i = 1 THEN "a" ELSE "c"]

EvidenceSentencePool == {<<"A", " ", "b">>, <<"c">>, LongSentence}

EvidenceSentenceLists == UNION {[1..k -> EvidenceSentencePool] : k \in 0..MaxSentences}

\* the transcript whose sentences are the given ones, each closed by ". "
RECURSIVE JoinSentences(_)
JoinSentences(sentences) ==
    IF sentences = <<>> THEN <<>>
    ELSE Head(sentences) \o <<".", " ">> \o JoinSentences(Tail(sentences))

\* the sentence_timestamps of the given sentences, three seconds each
Timestamped(sentences) ==
    [i \in DOMAIN sentences |->
        [end_time |-> 3 * i, start_time |-> 3 * (i - 1), text |-> sentences[i]]]

EvidencePhrases == {<<"a">>, <<"B">>, <<"a", " ", "b">>}

InitEvidence ==
    /\ NoJobs
    /\ merge_rules = ExtractMergeTable
    /\ stop_lines = {}
    /\ stop_phrases = LoadStopPhrases(stop_lines)
    /\ canon = NoCall
    /\ call = NoCall
    /\ NoAccount

\* evidence = self._find_evidence(phrase, sentence_timestamps, transcript)
\* and the topic built with it; sentences is the list the search runs over
FindEvidenceCall(phrase, mmr_score, sentences, timestamped) ==
    /\ ~call.called
    /\ \E transcript \in {JoinSentences(sentences)} :
       \E video \in {[hashtags |-> <<>>, len |-> Len(transcript),
                      pieces |-> SentencePieces(transcript),
                      timestamps |-> IF timestamped THEN Timestamped(sentences)
                                                    ELSE <<>>,
                      title |-> <<>>]} :
          call' = [called |-> TRUE,
                   fn |-> "find_evidence",
                   mmr_score |-> mmr_score,
                   phrase |-> phrase,
                   ret |-> FindEvidence(phrase, video.timestamps, video.len,
                                        video.pieces),
                   sentences |-> IF timestamped THEN sentences ELSE video.pieces,
                   timestamped |-> timestamped,
                   topic |-> BuildTopic(video, [phrase |-> phrase,
                                                score |-> mmr_score])]
    /\ UNCHANGED <<jobVars, cfgVars, canon, acctVars, aggVars, umbVars>>

NextEvidence ==
    \/ /\ ~call.called
       /\ \E phrase \in EvidencePhrases, mmr_score \in {0, 3500},
             sentences \in EvidenceSentenceLists, timestamped \in BOOLEAN :
               FindEvidenceCall(phrase, mmr_score, sentences, timestamped)
    \/ ExtractReturn

SpecEvidence == InitEvidence /\ [][NextEvidence]_vars

\* C21: _find_evidence returns one evidence entry for every sentence that
\* contains the phrase (case-insensitive substring), in sentence order, with
\* sentence_timestamps and with the split transcript alike; every excerpt has
\* at most 150 characters, and the evidence count handed to
\* _compute_confidence is the number of those sentences.
C21_EverySentenceLinked ==
    (call.called /\ call.fn = "find_evidence")
        => /\ Len(call.ret)
                = Cardinality({i \in DOMAIN call.sentences :
                                  Contains(Lower(call.sentences[i]), Lower(call.phrase))})
           /\ \A j \in DOMAIN call.ret :
                 /\ call.ret[j].sentence_index + 1 \in DOMAIN call.sentences
                 /\ Contains(Lower(call.sentences[call.ret[j].sentence_index + 1]),
                             Lower(call.phrase))
                 /\ Len(call.ret[j].text) <= ExcerptLen
           /\ \A j, k \in DOMAIN call.ret :
                 j < k => call.ret[j].sentence_index < call.ret[k].sentence_index
           /\ call.topic.distinct_sentences
                = Cardinality({i \in DOMAIN call.sentences :
                                  Contains(Lower(call.sentences[i]), Lower(call.phrase))})
           /\ call.topic.confidence
                = ComputeConfidence(call.mmr_score,
                     Cardinality({i \in DOMAIN call.sentences :
                                     Contains(Lower(call.sentences[i]), Lower(call.phrase))}))

-----------------------------------------------------------------------------
(* Specification SpecLabel: _generate_umbrella_label called with any        *)
(* cluster of distinct canonical topics of the pool below.                  *)

\* most canonical topics of one cluster
MaxClusterSize == 4

\* "data data base", "data data base cell disk", "code", "math", "wine",
\* "ai cat", "ai ml", " "
LabelTopicPool ==
    { <<"d", "a", "t", "a", " ", "d", "a", "t", "a", " ", "b", "a", "s", "e">>,
      <<"d", "a", "t", "a", " ", "d", "a", "t", "a", " ", "b", "a", "s", "e", " ", "c", "e", "l", "l", " ", "d", "i", "s", "k">>,
      <<"c", "o", "d", "e">>,
      <<"m", "a", "t", "h">>,
      <<"w", "i", "n", "e">>,
      <<"a", "i", " ", "c", "a", "t">>,
      <<"a", "i", " ", "m", "l">>,
      <<" ">> }

InitLabel ==
    /\ NoJobs
    /\ merge_rules = <<>>
    /\ stop_lines = {}
    /\ stop_phrases = LoadStopPhrases(stop_lines)
    /\ canon = NoCall
    /\ call = NoCall
    /\ NoAccount

\* label = self._generate_umbrella_label(cluster_topics, cluster_embeddings)
GenerateLabelCall(cluster_topics) ==
    /\ ~call.called
    /\ call' = [called |-> TRUE, cluster_topics |-> cluster_topics, fn |-> "label",
                ret |-> GenerateUmbrellaLabel(cluster_topics)]
    /\ UNCHANGED <<jobVars, cfgVars, canon, acctVars, aggVars, umbVars>>

NextLabel ==
    \/ /\ ~call.called
       /\ \E cluster_topics \in OrderedSubsets(LabelTopicPool, MaxClusterSize) :
             /\ cluster_topics # <<>>
             /\ GenerateLabelCall(cluster_topics)
    \/ ExtractReturn

SpecLabel == InitLabel /\ [][NextLabel]_vars

\* C23: when no word of any member phrase survives the labeler's filter
\* (longer than 3 characters, no stopword, alphabetic), the label is the
\* first word of the first member phrase that has at least 3 characters, or
\* else the whole first phrase, and the call never raises, also when the
\* first member phrase is empty or blank.  (Compared without regard to case
\* and to the punctuation the labeler strips.)
C23_FallbackLabel ==
    (/\ call.called
     /\ call.fn = "label"
     /\ \A t \in DOMAIN call.cluster_topics : CountedWords(call.cluster_topics[t]) = <<>>)
        => LET first_topic == call.cluster_topics[1]
               words == LabelWords(first_topic)
               long == SelectSeq(words, LAMBDA w : Len(w) >= 3)
           IN  /\ ~call.ret.raised
               /\ Lower(call.ret.label)
                    = IF long # <<>> THEN long[1] ELSE Lower(first_topic)

\* C24: the label is one or two capitalized words.  With candidate words
\* (scored 3 * coverage + 0.5 * count, equal scores in the order of first
\* occurrence) it is the top-scoring word alone when that word's coverage is
\* at least 0.3 or it is the only candidate; otherwise the top word joined
\* with the first of the next 3 candidates that shares fewer than half of the
\* member phrases of the smaller of the two with the top word, and the top
\* word alone when none of the three does.
C24_OneOrTwoWordLabel ==
    (call.called /\ call.fn = "label" /\ ~call.ret.raised)
        => LET topics == call.cluster_topics
               n == Len(topics)
               label == Split(call.ret.label)
               counted == [t \in DOMAIN topics |-> CountedWords(topics[t])]
               occ == Flatten(counted)
               cands == Range(occ)
               in == [w \in cands |-> {t \in DOMAIN topics : w \in Range(counted[t])}]
               \* twice n times the score
               score == [w \in cands |->
                            6 * Cardinality(in[w])
                            + n * Cardinality({i \in DOMAIN occ : occ[i] = w})]
               seen == [w \in cands |-> CHOOSE i \in DOMAIN occ :
                                            occ[i] = w /\ \A j \in 1..(i - 1) : occ[j] # w]
               \* how many candidates come before w
               rank == [w \in cands |->
                           Cardinality({x \in cands :
                               \/ score[x] > score[w]
                               \/ score[x] = score[w] /\ seen[x] < seen[w]})]
               top == CHOOSE w \in cands : rank[w] = 0
               next == {w \in cands :
                           /\ rank[w] \in 1..3
                           /\ 2 * Cardinality(in[top] \cap in[w])
                                 < Min(Cardinality(in[top]), Cardinality(in[w]))}
               second == CHOOSE w \in next : \A x \in next : rank[w] <= rank[x]
           IN  /\ Len(label) \in {1, 2}
               /\ \A k \in DOMAIN label :
                     /\ label[k][1] \in Range(Capitals)
                     /\ \A c \in 2..Len(label[k]) : label[k][c] \in Range(Letters)
               /\ cands # {} =>
                     /\ Lower(label[1]) = top
                     /\ IF 10 * Cardinality(in[top]) >= 3 * n \/ Cardinality(cands) = 1
                        THEN Len(label) = 1
                        ELSE IF next = {} THEN Len(label) = 1
                        ELSE Len(label) = 2 /\ Lower(label[2]) = second

\* a cluster of four topics whose top word covers one of them: the next word
\* shares that topic with it, and the label joins the top word with the one
\* after
C24_Witness ==
    /\ call.called
    /\ call.fn = "label"
    /\ Len(call.cluster_topics) = 4
    /\ call.cluster_topics[1] = <<"d", "a", "t", "a", " ", "d", "a", "t", "a", " ",
                                  "b", "a", "s", "e">>
    /\ call.cluster_topics[2] = <<"a", "i", " ", "m", "l">>
    /\ call.ret.label = <<"D", "a", "t", "a", " ", "C", "o", "d", "e">>

-----------------------------------------------------------------------------
(* Specification SpecConfig: one TopicExtractorV2 after construction, its   *)
(* methods called in any order; every action states what the call leaves in *)
(* self.canonical_map["merge_rules"] and self.stop_phrases.                 *)

\* a _canonicalize that remembers every phrase it was asked about
RulesMemoized(rules, phrase) ==
    LET phrase_lower == Strip(Lower(phrase))
    IN  IF phrase_lower \in DOMAIN rules THEN rules
        ELSE [k \in DOMAIN rules \cup {phrase_lower} |->
                 IF k \in DOMAIN rules THEN rules[k] ELSE phrase_lower]

\* merge_rules after one _canonicalize(phrase): the table is only read
\* (.get, in, [...])
RulesAfterCanonicalize(rules, phrase) == rules

\* stop_phrases after one _is_stop_phrase(phrase): the set is only read (in)
StopPhrasesAfterCheck(stops, phrase) == stops

\* merge_rules after the _canonicalize calls of step 5, one per selected
\* phrase that is not skipped as noise
RECURSIVE RulesAfterTopics(_, _)
RulesAfterTopics(rules, selected) ==
    IF selected = <<>> THEN rules
    ELSE RulesAfterTopics(IF Head(selected).score < NoiseFloorE4 THEN rules
                          ELSE RulesAfterCanonicalize(rules, Head(selected).phrase),
                          Tail(selected))

\* stop_phrases after the _is_stop_phrase calls of step 2, one per noun phrase
RECURSIVE StopPhrasesAfterFilter(_, _)
StopPhrasesAfterFilter(stops, noun_phrases) ==
    IF noun_phrases = <<>> THEN stops
    ELSE StopPhrasesAfterFilter(StopPhrasesAfterCheck(stops, Head(noun_phrases).phrase),
                                Tail(noun_phrases))

\* extractor.extract_video_topics_enhanced(...)
ConfigExtractCall(video) ==
    /\ ~call.called
    /\ \E ret \in {ExtractVideoTopicsEnhanced(video)} :
          /\ call' = [called |-> TRUE, fn |-> "v2", ret |-> ret, video |-> video]
          /\ merge_rules' = RulesAfterTopics(merge_rules, ret.selected)
          /\ stop_phrases' =
                IF TooShort(video.len) \/ video.fault = "nlp" THEN stop_phrases
                ELSE StopPhrasesAfterFilter(stop_phrases, video.noun_phrases)
    /\ UNCHANGED <<jobVars, stop_lines, canon, acctVars, aggVars, umbVars>>

\* extractor._canonicalize(phrase)
ConfigCanonicalize(phrase) ==
    /\ ~call.called
    /\ call' = [arg |-> phrase, called |-> TRUE, fn |-> "_canonicalize",
                ret |-> Canonicalize(phrase)]
    /\ merge_rules' = RulesAfterCanonicalize(merge_rules, phrase)
    /\ UNCHANGED <<jobVars, stop_lines, stop_phrases, canon, acctVars, aggVars, umbVars>>

\* extractor._is_stop_phrase(phrase)
ConfigIsStopPhrase(phrase) ==
    /\ ~call.called
    /\ call' = [arg |-> phrase, called |-> TRUE, fn |-> "_is_stop_phrase",
                ret |-> IsStopPhrase(phrase)]
    /\ stop_phrases' = StopPhrasesAfterCheck(stop_phrases, phrase)
    /\ UNCHANGED <<jobVars, merge_rules, stop_lines, canon, acctVars, aggVars, umbVars>>

NextConfig ==
    \/ /\ ~call.called
       /\ \E len \in {MinTranscriptLen - 1, MinTranscriptLen}, pieces \in PiecePool,
             ts \in TimestampPool, nps \in NounPhraseLists, meta \in MetaPool,
             fault \in {"none", "nlp", "encode"} :
               ConfigExtractCall(Video(len, pieces, ts, nps, meta,
                                       [lambda_param |-> 70, max_topics |-> 10,
                                        min_confidence |-> 0], fault))
    \/ /\ ~call.called
       /\ \E phrase \in Phrases : ConfigCanonicalize(phrase)
    \/ /\ ~call.called
       /\ \E phrase \in Phrases : ConfigIsStopPhrase(phrase)
    \/ ExtractReturn

SpecConfig == InitExtract /\ [][NextConfig]_vars

\* C25: no extract_video_topics_enhanced, _canonicalize or _is_stop_phrase
\* call, whether it returns topics, an empty list or catches a failure,
\* changes the merge table or the stop-phrase set: after any sequence of such
\* calls both are what they were at construction.
C25_ConfigurationUnchanged ==
    /\ [][merge_rules' = merge_rules /\ stop_phrases' = stop_phrases]_vars
    /\ [](merge_rules = ExtractMergeTable /\ stop_phrases = LoadStopPhrases(stop_lines))

\* an extraction that filtered a stop phrase out of the noun phrases and
\* canonicalized the tag of a returned topic through the merge table
C25_Witness ==
    /\ call.called
    /\ call.fn = "v2"
    /\ stop_phrases # {}
    /\ \E i \in DOMAIN call.video.noun_phrases :
          Strip(Lower(call.video.noun_phrases[i].phrase)) \in stop_phrases
    /\ \E i \in DOMAIN call.ret.topics :
          call.ret.topics[i].canonical # Strip(Lower(call.ret.topics[i].tag))

\* ---------------------------------------------------------------------
\* Specification SpecQueue: IngestionQueueManager with one job, its
\* run_ingestion coroutine and the coroutines pause_job, resume_job and
\* cancel_job, which the event loop runs while run_ingestion is suspended
\* ---------------------------------------------------------------------

\* how the ingestion of one account ends: new videos transcribed, videos
\* found but none new, no videos found, a non-zero exit code, an exception
IngestOutcomes == {"videos", "known", "no_videos", "exit_code", "raised"}

\* the step of a post-processing iteration that raises
QueueFaults == PostFaults \cup {"umbrella"}

\* the positions of run_ingestion at which the event loop runs another
\* coroutine: not called yet, inside `await asyncio.sleep`, returned
Suspended == {"created", "awaiting", "finished"}

InitQueue ==
    /\ NoJobs
    /\ merge_rules = <<>>
    /\ stop_lines = {}
    /\ stop_phrases = LoadStopPhrases(stop_lines)
    /\ canon = NoCall
    /\ call = NoCall
    /\ NoAccount

\* job_id = create_job(usernames)
CreateJob(usernames) ==
    /\ job.pc = "idle"
    /\ job' = [accounts |-> [a \in 1..usernames |->
                                [current_video |-> FALSE,
                                 processed_videos |-> 0,
                                 status |-> "queued"]],
               control |-> NoCall,
               pc |-> "created",
               pos |-> 1,
               status |-> "queued"]
    /\ UNCHANGED <<batch, ingestion, worker, cfgVars, canon, call, acctVars, aggVars,
                   umbVars>>

\* await pause_job(job_id)
PauseJob ==
    /\ job.pc \in Suspended
    /\ \E ret \in {job.status \in {"queued", "downloading", "transcribing"}} :
          job' = [job EXCEPT !.status = IF ret THEN "paused" ELSE @,
                             !.control = [called |-> TRUE, fn |-> "pause_job",
                                          ret |-> ret]]
    /\ UNCHANGED <<batch, ingestion, worker, cfgVars, canon, call, acctVars, aggVars,
                   umbVars>>

\* await resume_job(job_id)
ResumeJob ==
    /\ job.pc \in Suspended
    /\ \E ret \in {job.status = "paused"} :
          job' = [job EXCEPT !.status = IF ret THEN "queued" ELSE @,
                             !.control = [called |-> TRUE, fn |-> "resume_job",
                                          ret |-> ret]]
    /\ UNCHANGED <<batch, ingestion, worker, cfgVars, canon, call, acctVars, aggVars,
                   umbVars>>

\* await cancel_job(job_id)
CancelJob ==
    /\ job.pc \in Suspended
    /\ \E ret \in {job.status \notin {"complete", "cancelled"}} :
          job' = [job EXCEPT !.status = IF ret THEN "cancelled" ELSE @,
                             !.control = [called |-> TRUE, fn |-> "cancel_job",
                                          ret |-> ret]]
    /\ UNCHANGED <<batch, ingestion, worker, cfgVars, canon, call, acctVars, aggVars,
                   umbVars>>

\* run_ingestion(job_id) up to its first loop
RunIngestionStart ==
    /\ job.pc = "created"
    /\ job' = [job EXCEPT !.status = "fetching_metadata", !.pc = "ingest"]
    /\ UNCHANGED <<batch, ingestion, worker, cfgVars, canon, call, acctVars, aggVars,
                   umbVars>>

\* the top of `for account_progress in job.accounts`, up to the first
\* `await asyncio.sleep` of the account
IngestAccountBegin ==
    /\ job.pc = "ingest"
    /\ job' = IF job.pos > Len(job.accounts) \/ job.status = "cancelled"
              THEN [job EXCEPT !.pc = "post_begin"]
              ELSE [job EXCEPT !.accounts[job.pos].status = "downloading",
                               !.accounts[job.pos].current_video = TRUE,
                               !.pc = "awaiting"]
    /\ UNCHANGED <<batch, ingestion, worker, cfgVars, canon, call, acctVars, aggVars,
                   umbVars>>

\* the subprocess of the account has ended, or the iteration raised
IngestAccountEnd(outcome) ==
    /\ job.pc = "awaiting"
    /\ job' = [job EXCEPT
                  !.accounts[job.pos].status =
                      IF outcome \in {"videos", "known"} THEN "complete" ELSE "failed",
                  !.accounts[job.pos].processed_videos =
                      IF outcome = "videos" THEN 1 ELSE 0,
                  !.accounts[job.pos].current_video = FALSE,
                  !.pos = @ + 1,
                  !.pc = "ingest"]
    /\ UNCHANGED <<batch, ingestion, worker, cfgVars, canon, call, acctVars, aggVars,
                   umbVars>>

\* the imports and TranscriptIndexer() before the post-processing loop
PostProcessingBegin(raised) ==
    /\ job.pc = "post_begin"
    /\ job' = [job EXCEPT !.pos = 1, !.pc = IF raised THEN "end" ELSE "post"]
    /\ UNCHANGED <<batch, ingestion, worker, cfgVars, canon, call, acctVars, aggVars,
                   umbVars>>

\* one iteration of the post-processing loop over job.accounts
PostProcessingAccount(fault) ==
    /\ job.pc = "post"
    /\ job' = IF job.pos > Len(job.accounts) \/ job.status = "cancelled"
              THEN [job EXCEPT !.pc = "end"]
              ELSE IF ~(/\ job.accounts[job.pos].status = "complete"
                        /\ job.accounts[job.pos].processed_videos > 0)
              THEN [job EXCEPT !.pos = @ + 1]
              ELSE [job EXCEPT
                       !.accounts[job.pos].status =
                           IF fault \in {"topics_v1", "topics_v2", "builder", "umbrella"}
                           THEN "extracting_topics"
                           ELSE IF fault = "index" THEN "embedding"
                           ELSE "complete",
                       !.accounts[job.pos].current_video = FALSE,
                       !.pos = @ + 1]
    /\ UNCHANGED <<batch, ingestion, worker, cfgVars, canon, call, acctVars, aggVars,
                   umbVars>>

\* run_ingestion after the post-processing
RunIngestionEnd ==
    /\ job.pc = "end"
    /\ job' = [job EXCEPT !.status = IF @ # "cancelled" THEN "complete" ELSE @,
                          !.pc = "finished"]
    /\ UNCHANGED <<batch, ingestion, worker, cfgVars, canon, call, acctVars, aggVars,
                   umbVars>>

NextQueue ==
    \/ \E usernames \in 1..NumAccounts : CreateJob(usernames)
    \/ PauseJob
    \/ ResumeJob
    \/ CancelJob
    \/ RunIngestionStart
    \/ IngestAccountBegin
    \/ \E outcome \in IngestOutcomes : IngestAccountEnd(outcome)
    \/ \E raised \in BOOLEAN : PostProcessingBegin(raised)
    \/ \E fault \in QueueFaults : PostProcessingAccount(fault)
    \/ RunIngestionEnd

SpecQueue == InitQueue /\ [][NextQueue]_vars

\* C29: once cancel_job has returned True the status of the job is
\* "cancelled" and stays so in every later state, and no account that is
\* still queued is started, whatever run_ingestion, pause_job and
\* resume_job do afterwards, a cancel of a job that is still queued
\* included.
C29_CancelIsFinal ==
    /\ [](job.pc # "idle" /\ job.control = [called |-> TRUE, fn |-> "cancel_job",
                                            ret |-> TRUE]
             => job.status = "cancelled")
    /\ [][job.pc # "idle" /\ job.status = "cancelled"
             => /\ job'.status = "cancelled"
                /\ \A a \in DOMAIN job.accounts :
                      job.accounts[a].status = "queued"
                          => job'.accounts[a].status = "queued"]_vars

\* C30: when run_ingestion has set the status of the job to "complete",
\* every account is "complete" or "failed" and has no current_video.
C30_CompleteJobAccountsTerminal ==
    job.pc = "finished" /\ job.status = "complete"
        => \A a \in DOMAIN job.accounts :
              /\ job.accounts[a].status \in {"complete", "failed"}
              /\ ~job.accounts[a].current_video

====
